---- MODULE Spec2Model ----
(***************************************************************************)
(* A model of az-tui: the board-tasks browser (fetch, command-line         *)
(* filters, table, interactive column/regex filter loop) and the           *)
(* pull-request interactive menu, with the functions they are built from   *)
(* (the filter, the field normalizer and formatter, the table layout, the  *)
(* text helpers) also run on their own over bounded inputs.                *)
(*                                                                         *)
(* Strings are sequences of one-character strings.  A JavaScript value is  *)
(* a tagged record: Null, Undef, StrV(s), NumV(n), ArrV(items) or          *)
(* ObjV(...).  A regular expression is                                     *)
(* modelled on the literal subset of the pattern language: a pattern text  *)
(* without metacharacters matches as a case-insensitive substring, the     *)
(* empty pattern matches everything, and a text holding an unclosed "("    *)
(* does not compile (SyntaxError: Unterminated group).                     *)
(***************************************************************************)
EXTENDS Integers, Sequences, FiniteSets, TLC

VARIABLES
  prog,            \* which script this process runs: "board", "pr", "fn"
  pc,              \* the await point the script is suspended at
  exitCode,        \* the process exit code once it has ended, else Undef
  tableShown,      \* whether a table has been printed so far
  errorReported,   \* how many times the top-level catch has printed an error
  lastInput,       \* the operator's last answer to a prompt
  complaint,       \* the message last shown to the operator by the loop
  typed,           \* the text last typed at a pattern prompt
  \* board-tasks
  options,         \* commander's parsed options
  fieldsToDisplay, \* parseFields()
  detail,          \* fetchTaskDetails in progress: the ids, its result
                   \* array and the order the subprocesses ended in
  fetched,         \* what fetchTaskDetails resolved to
  tasks,           \* runInteractiveFilter's parameter `tasks`
  activeField, activeRegex, filtered,   \* runInteractiveFilter's locals
  resolvedField,   \* the column chosen, while the regex prompt is open
  view,            \* the rows of the table printed last (printTasks's argument)
  prevView,        \* the rows of the table printed before that one
  \* pr-interactive
  variant,         \* which of the two mainMenu variants of pr-interactive.js
  prs,             \* mainMenu's `prs`
  prView,          \* the rows showTable printed last
  chosen,          \* the pull request whose details are on screen
  \* functions run on their own
  call             \* the arguments and the results of the calls made

vars == <<prog, pc, exitCode, tableShown, errorReported, lastInput, complaint,
          typed, options, fieldsToDisplay, fetched, detail, tasks, activeField,
          activeRegex, filtered, resolvedField, view, prevView, variant, prs,
          prView, chosen, call>>

boardVars == <<options, fieldsToDisplay, fetched, detail, tasks, activeField,
               activeRegex, filtered, resolvedField, view, prevView>>
prVars == <<variant, prs, prView, chosen>>
commonVars == <<prog, pc, exitCode, tableShown, errorReported, lastInput,
                complaint, typed>>

-----------------------------------------------------------------------------
(* Bounds of the model. *)

\* The longest record sequence the record source returns.
MaxTasks == 2

\* The longest pull-request list the record source returns.
MaxPRs == 2

\* The longest text given to wrapText.
MaxText == 5

\* The longest branch name (without its refs/heads/ prefix) given to
\* formatBranch.
MaxBranch == 4

-----------------------------------------------------------------------------
(* JavaScript values and strings. *)

Null == [k |-> "null"]
Undef == [k |-> "undef"]
StrV(s) == [k |-> "str", s |-> s]
NumV(n) == [k |-> "num", n |-> n]
\* A field identifier used as a value (a JavaScript string naming a field).
FieldV(id) == [k |-> "field", id |-> id]
\* An array of strings, and an identity object as az prints one for a person
\* field: each property is a value, Undef when the object does not have it.
ArrV(items) == [k |-> "arr", items |-> items]
ObjV(displayName, uniqueName, mailAddress) ==
  [k |-> "obj", displayName |-> displayName, uniqueName |-> uniqueName,
   mailAddress |-> mailAddress]

\* s.split(c) for a one-character separator.
RECURSIVE split(_, _)
split(s, c) ==
  IF \A i \in 1..Len(s) : s[i] # c THEN <<s>>
  ELSE LET i == CHOOSE n \in 1..Len(s) :
                  s[n] = c /\ \A m \in 1..(n - 1) : s[m] # c
       IN  <<SubSeq(s, 1, i - 1)>> \o split(SubSeq(s, i + 1, Len(s)), c)

\* items.join(sep)
RECURSIVE join(_, _)
join(items, sep) ==
  IF items = <<>> THEN <<>>
  ELSE IF Len(items) = 1 THEN items[1]
  ELSE items[1] \o sep \o join(Tail(items), sep)

\* s.trim(): the white space at both ends is removed.
RECURSIVE trim(_)
trim(s) ==
  IF s = <<>> THEN s
  ELSE IF s[1] = " " THEN trim(Tail(s))
  ELSE IF s[Len(s)] = " " THEN trim(SubSeq(s, 1, Len(s) - 1))
  ELSE s

DigitChars == <<"0", "1", "2", "3", "4", "5", "6", "7", "8", "9">>

\* String(n) for a small non-negative integer.
NumToString(n) ==
  IF n < 10 THEN <<DigitChars[n + 1]>>
  ELSE <<DigitChars[(n \div 10) + 1], DigitChars[(n % 10) + 1]>>

\* JavaScript truthiness: undefined, null, "" and 0 are falsy.
Truthy(v) ==
  CASE v.k = "undef" -> FALSE
    [] v.k = "null" -> FALSE
    [] v.k = "str" -> v.s # <<>>
    [] v.k = "num" -> v.n # 0
    [] v.k = "field" -> v.id # ""
    [] v.k = "regex" -> TRUE
    [] v.k = "arr" -> TRUE
    [] v.k = "obj" -> TRUE

\* String(v)
String(v) ==
  CASE v.k = "str" -> v.s
    [] v.k = "num" -> NumToString(v.n)
    [] v.k = "undef" -> <<"u", "n", "d", "e", "f", "i", "n", "e", "d">>
    [] v.k = "null" -> <<"n", "u", "l", "l">>
    [] v.k = "arr" -> join(v.items, <<",">>)
    [] v.k = "obj" -> <<"[", "o", "b", "j", "e", "c", "t", " ", "O", "b", "j",
                        "e", "c", "t", "]">>

\* v || "" : the value itself when truthy, else the empty string.
OrEmpty(v) == IF Truthy(v) THEN v ELSE StrV(<<>>)

ToLower(c) ==
  CASE c = "F" -> "f"
    [] c = "I" -> "i"
    [] c = "X" -> "x"
    [] c = "D" -> "d"
    [] c = "N" -> "n"
    [] c = "A" -> "a"
    [] c = "B" -> "b"
    [] c = "O" -> "o"
    [] OTHER -> c

LowerStr(s) == [i \in 1..Len(s) |-> ToLower(s[i])]

-----------------------------------------------------------------------------
(* Regular expressions: new RegExp(text, "i") and RegExp.prototype.test. *)

\* Whether new RegExp(text, "i") throws a SyntaxError.
RegExpThrows(text) == \E i \in 1..Len(text) : text[i] = "("

\* The compiled expression (only for a text that compiles).
RegExp(text) == [k |-> "regex", source |-> text]

\* regex.test(s) with the i flag, for a literal pattern.
RegexTest(regex, s) ==
  LET p == LowerStr(regex.source)
      t == LowerStr(s)
  IN  \E i \in 1..(Len(t) + 1) :
        /\ i + Len(p) - 1 <= Len(t)
        /\ SubSeq(t, i, i + Len(p) - 1) = p

-----------------------------------------------------------------------------
(* board-tasks: records, fields and the filter engine. *)

SystemId == "System.Id"
SystemTitle == "System.Title"
SystemState == "System.State"
SystemAssignedTo == "System.AssignedTo"
SystemIterationPath == "System.IterationPath"
SystemWorkItemType == "System.WorkItemType"
SystemTags == "System.Tags"

\* value.name, for any value: Undef unless the value is an object.
Prop(value, name) == IF value.k = "obj" THEN value[name] ELSE Undef

\* a || b
Or(a, b) == IF Truthy(a) THEN a ELSE b

\* A mutation of normalizeFieldValue: the person rule is left out.
normalizeFieldValue_NoPersonRule(field, value) ==
  IF value.k \in {"null", "undef"} THEN StrV(<<"-">>)
  ELSE IF value.k = "arr" THEN StrV(join(value.items, <<",", " ">>))
  ELSE value

\* normalizeFieldValue(field, value): null or undefined becomes "-"; the
\* person field keeps a string and else takes the first truthy of the three
\* identity properties, "-" when there is none; an array is joined with
\* ", "; anything else is kept as it is.
normalizeFieldValue(field, value) ==
  IF value.k \in {"null", "undef"} THEN StrV(<<"-">>)
  ELSE IF field = SystemAssignedTo
  THEN IF value.k = "str" THEN value
       ELSE Or(Prop(value, "displayName"),
               Or(Prop(value, "uniqueName"),
                  Or(Prop(value, "mailAddress"), StrV(<<"-">>))))
  ELSE IF value.k = "arr" THEN StrV(join(value.items, <<",", " ">>))
  ELSE value

\* One element of fetchTaskDetails's result: item.fields normalized, and
\* System.Id taken from item.id when the fields do not carry it.
WorkItem(id, title, state) ==
  [id |-> id,
   fields |-> (SystemId :> NumV(id)
               @@ SystemTitle :> normalizeFieldValue(SystemTitle, title)
               @@ SystemState :> normalizeFieldValue(SystemState, state))]

\* The work items the record source may return.
W1 == WorkItem(1, StrV(<<"F", "i", "x">>), StrV(<<"N", "e", "w">>))
W2 == WorkItem(2, StrV(<<"f", "o", "x">>), StrV(<<"D", "o", "n", "e">>))
W3 == WorkItem(3, StrV(<<"F", "I", "X">>), Null)
WorkItems == {W1, W2, W3}

\* The work item az shows for an id.
ItemOf(id) == CHOOSE w \in WorkItems : w.id = id

\* The id lists fetchTaskIds may resolve to: distinct ids, in any order.
IdSeqs ==
  LET Ids == {w.id : w \in WorkItems}
  IN  UNION {{s \in [1..n -> Ids] : \A i, j \in 1..n : i # j => s[i] # s[j]}
             : n \in 1..MaxTasks}

\* fetchTaskDetails not started.
NoDetail == [ids |-> <<>>, slots |-> <<>>, order |-> <<>>]

\* The record sequences fetchTaskDetails may resolve to: the queried ids are
\* distinct, in any order.
TaskSeqs ==
  UNION {{s \in [1..n -> WorkItems] : \A i, j \in 1..n : i # j => s[i] # s[j]}
         : n \in 1..MaxTasks}

\* The results of parseFields(): unique, non-empty ids, System.Id among them.
\* "5" is a custom field id no record carries.
FieldLists == {<<SystemId, SystemTitle, SystemState>>, <<SystemId, SystemTitle, "5">>}

\* The texts the operator types at the regex prompt.
PatternInputs ==
  {<<>>, <<"f", "i", "x">>, <<"o">>, <<"(">>}

\* What the command line says about interactive filtering.
InteractiveFlags == {"none", "--interactive", "--no-interactive"}

\* options.interactive: the option's default is true, --interactive sets
\* true, --no-interactive sets false.
interactiveOption(flag) == flag # "--no-interactive"

\* commander's options: each of filterField, filterValue, name and state is
\* Null (not given) or a value; flag is the interactive flag on the command
\* line and interactive the value commander gives the option.
NoOptions ==
  [filterField |-> Null, filterValue |-> Null, name |-> Null, state |-> Null,
   flag |-> "none", interactive |-> interactiveOption("none")]
FilterOptions ==
  {NoOptions,
   [NoOptions EXCEPT !.state = StrV(<<"d", "o", "n", "e">>)],
   [NoOptions EXCEPT !.filterField = FieldV(SystemTitle),
                     !.filterValue = StrV(<<"f", "i", "x">>)],
   [NoOptions EXCEPT !.name = StrV(<<"(">>)]}
CliOptions ==
  {[o EXCEPT !.flag = f, !.interactive = interactiveOption(f)] :
     o \in FilterOptions, f \in InteractiveFlags}

\* t.fields?.[name]
getField(t, name) ==
  IF name \in DOMAIN t.fields THEN t.fields[name] ELSE Undef

\* The property key a value is coerced to in t.fields[field].
FieldKey(field) == IF field.k = "field" THEN field.id ELSE "null"

\* A mutation of filterByField: the guard tests only the regex.
filterByField_RegexOnly(tasksArg, field, regex) ==
  IF regex.k = "null" THEN tasksArg
  ELSE LET Keep(t) ==
             RegexTest(regex, String(OrEmpty(getField(t, FieldKey(field)))))
       IN  SelectSeq(tasksArg, Keep)

\* A mutation of filterByField: the first matching record is left out.
filterByField_DropsFirst(tasksArg, field, regex) ==
  IF ~Truthy(field) \/ ~Truthy(regex) THEN tasksArg
  ELSE LET Keep(t) ==
             RegexTest(regex, String(OrEmpty(getField(t, FieldKey(field)))))
           kept == SelectSeq(tasksArg, Keep)
       IN  IF kept = <<>> THEN kept ELSE Tail(kept)

\* A mutation of filterByField: the text is compared without folding case.
filterByField_CaseSensitive(tasksArg, field, regex) ==
  IF ~Truthy(field) \/ ~Truthy(regex) THEN tasksArg
  ELSE LET Keep(t) ==
             LET s == String(OrEmpty(getField(t, FieldKey(field))))
                 p == regex.source
             IN  \E i \in 1..(Len(s) + 1) :
                   /\ i + Len(p) - 1 <= Len(s)
                   /\ SubSeq(s, i, i + Len(p) - 1) = p
       IN  SelectSeq(tasksArg, Keep)

\* filterByField(tasks, field, regex): field is Null or FieldV(id), regex is
\* Null or a compiled expression.
filterByField(tasksArg, field, regex) ==
  IF ~Truthy(field) \/ ~Truthy(regex) THEN tasksArg
  ELSE LET Keep(t) ==
             RegexTest(regex, String(OrEmpty(getField(t, FieldKey(field)))))
       IN  SelectSeq(tasksArg, Keep)

\* Whether filterTasks throws: one of the option texts it compiles is malformed.
filterTasksThrows(opts) ==
  \/ Truthy(opts.filterField) /\ Truthy(opts.filterValue)
       /\ RegExpThrows(opts.filterValue.s)
  \/ Truthy(opts.name) /\ RegExpThrows(opts.name.s)
  \/ Truthy(opts.state) /\ RegExpThrows(opts.state.s)

\* One stage of filterTasks: the records whose field matches the option text.
OptionStage(ts, on, fieldId, text) ==
  IF ~on THEN ts
  ELSE LET Keep(t) ==
             RegexTest(RegExp(text.s), String(OrEmpty(getField(t, fieldId))))
       IN  SelectSeq(ts, Keep)

\* filterTasks(tasks): the command-line filters, applied one after the other.
filterTasks(ts, opts) ==
  LET byField == OptionStage(ts,
                   Truthy(opts.filterField) /\ Truthy(opts.filterValue),
                   FieldKey(opts.filterField), opts.filterValue)
      byName == OptionStage(byField, Truthy(opts.name), SystemTitle, opts.name)
  IN  OptionStage(byName, Truthy(opts.state), SystemState, opts.state)

\* formatField(field, value): "-" for an absent value; the last non-empty
\* trimmed segment of an iteration path (the whole text when there is none);
\* a tag string split on ";", joined with ", " and trimmed as a whole;
\* String(value) otherwise.
formatField(field, value) ==
  IF value.k \in {"null", "undef"} \/ value = StrV(<<"-">>) THEN <<"-">>
  ELSE IF field = SystemIterationPath
  THEN LET segments == split(String(value), "\\")
           trimmed == [i \in 1..Len(segments) |-> trim(segments[i])]
           NonEmpty(x) == x # <<>>
           parts == SelectSeq(trimmed, NonEmpty)
       IN  IF parts # <<>> THEN parts[Len(parts)] ELSE String(value)
  ELSE IF field = SystemTags /\ value.k = "str"
  THEN trim(join(split(value.s, ";"), <<",", " ">>))
  ELSE String(value)

\* The rows printTasks pushes to the table: one per task, one cell per
\* displayed field; no row at all (a message instead) for an empty list.
printTasks(ts, fields) ==
  [i \in 1..Len(ts) |->
     [id |-> ts[i].id,
      cells |-> [j \in 1..Len(fields) |->
                   IF fields[j] = SystemId THEN String(getField(ts[i], SystemId))
                   ELSE formatField(fields[j], getField(ts[i], fields[j]))]]]

\* Number(choice) for the field ids of the model; NaN is -1.
Number(choice) ==
  CASE choice = "5" -> 5
    [] OTHER -> -1

\* resolveFieldChoice(choice, fieldsToDisplay): the list prompt answers with a
\* field id (a string); a numeric one is taken as a 1-based column number.
\* Undef when the number names no column.
resolveFieldChoice(choice, fields) ==
  LET asNum == Number(choice)
  IN  IF asNum # -1
      THEN IF asNum \in 1..Len(fields) THEN FieldV(fields[asNum]) ELSE Undef
      ELSE FieldV(choice)

\* The regex prompt's validate(input): "true", or the complaint.
validate_AcceptAll(input) == "true"

validate(input) ==
  IF RegExpThrows(input) THEN "Invalid regex: Unterminated group" ELSE "true"

SeqToSet(s) == {s[i] : i \in 1..Len(s)}

-----------------------------------------------------------------------------
(* Start, and the top-level catch. *)

NoCall == [field |-> Null, regex |-> Null, input |-> <<>>, output |-> <<>>,
           applied |-> FALSE, second |-> <<>>, reapplied |-> FALSE,
           byOption |-> <<>>, optionApplied |-> FALSE]

CommonInit(p, start) ==
  /\ prog = p
  /\ pc = start
  /\ exitCode = Undef
  /\ tableShown = FALSE
  /\ errorReported = 0
  /\ lastInput = "none"
  /\ complaint = "none"

\* The catch of a script's top-level async function: the error is printed
\* and the function returns; nothing sets process.exitCode, so the process
\* ends with code 0.
Catch(kind) ==
  /\ errorReported' = errorReported + 1
  /\ complaint' = kind
  /\ pc' = "ended"
  /\ exitCode' = NumV(0)

-----------------------------------------------------------------------------
(* board-tasks: the top-level async function. *)

BoardInit ==
  /\ CommonInit("board", "fetchTaskIds")
  /\ options \in CliOptions
  /\ fieldsToDisplay \in FieldLists
  /\ fetched = <<>>
  /\ detail = NoDetail
  /\ tasks = <<>>
  /\ activeField = Null
  /\ activeRegex = Null
  /\ filtered = <<>>
  /\ resolvedField = Undef
  /\ view = <<>>
  /\ prevView = <<>>
  /\ typed = <<>>
  /\ variant = "none" /\ prs = <<>> /\ prView = <<>> /\ chosen = Undef
  /\ call = NoCall

\* await fetchTaskIds(wiql) rejects: az cannot be started, exits non-zero or
\* prints what is not JSON.
FetchTaskIdsFails ==
  /\ prog = "board" /\ pc = "fetchTaskIds"
  /\ Catch("fetch")
  /\ UNCHANGED <<prog, tableShown, lastInput, typed, boardVars, prVars, call>>

\* await fetchTaskIds(wiql) resolves to no id: "No open tasks found".
FetchTaskIdsEmpty ==
  /\ prog = "board" /\ pc = "fetchTaskIds"
  /\ complaint' = "No open tasks found on the board."
  /\ pc' = "ended"
  /\ exitCode' = NumV(0)
  /\ UNCHANGED <<prog, tableShown, errorReported, lastInput, typed, boardVars,
                 prVars, call>>

\* await fetchTaskIds(wiql) resolves to ids; fetchTaskDetails is started:
\* ids.map starts one `az boards work-item show` per id, all running at
\* once, and Promise.all waits with one empty result slot per id.
FetchTaskIdsOk(ids) ==
  /\ prog = "board" /\ pc = "fetchTaskIds"
  /\ pc' = "fetchTaskDetails"
  /\ detail' = [ids |-> ids, slots |-> [i \in 1..Len(ids) |-> Undef],
                order |-> <<>>]
  /\ UNCHANGED <<prog, exitCode, tableShown, errorReported, lastInput,
                 complaint, typed, options, fieldsToDisplay, fetched, tasks,
                 activeField, activeRegex, filtered, resolvedField, view,
                 prevView, prVars, call>>

\* A mutation of ItemSettles: the result is put in the first free slot, in
\* the order the subprocesses end.
ItemSettles_InCompletionOrder(i) ==
  /\ prog = "board" /\ pc = "fetchTaskDetails"
  /\ i \in 1..Len(detail.ids) /\ i \notin SeqToSet(detail.order)
  /\ detail' = [detail EXCEPT
                  !.slots[Len(detail.order) + 1] = ItemOf(detail.ids[i]),
                  !.order = Append(@, i)]
  /\ UNCHANGED <<prog, pc, exitCode, tableShown, errorReported, lastInput,
                 complaint, typed, options, fieldsToDisplay, fetched, tasks,
                 activeField, activeRegex, filtered, resolvedField, view,
                 prevView, prVars, call>>

\* The subprocess of the i-th id ends with the item's JSON: the callback
\* normalizes the fields and its promise fulfils; Promise.all keeps the
\* value at the promise's index.
ItemSettles(i) ==
  /\ prog = "board" /\ pc = "fetchTaskDetails"
  /\ i \in 1..Len(detail.ids) /\ i \notin SeqToSet(detail.order)
  /\ detail' = [detail EXCEPT !.slots[i] = ItemOf(detail.ids[i]),
                              !.order = Append(@, i)]
  /\ UNCHANGED <<prog, pc, exitCode, tableShown, errorReported, lastInput,
                 complaint, typed, options, fieldsToDisplay, fetched, tasks,
                 activeField, activeRegex, filtered, resolvedField, view,
                 prevView, prVars, call>>

\* Whether every per-item promise has fulfilled: Promise.all resolves.
AllSettled == Len(detail.order) = Len(detail.ids)

\* await fetchTaskDetails(ids, fetchFields) rejects: getOrgProject fails, or
\* one of the subprocesses still running fails or prints what is not JSON.
FetchTaskDetailsFails ==
  /\ prog = "board" /\ pc = "fetchTaskDetails"
  /\ ~AllSettled
  /\ Catch("fetch")
  /\ UNCHANGED <<prog, tableShown, lastInput, typed, boardVars, prVars, call>>

\* await fetchTaskDetails resolves, but a command-line regex does not
\* compile: filterTasks throws before anything is printed.
FetchTaskDetailsBadOption ==
  /\ prog = "board" /\ pc = "fetchTaskDetails"
  /\ AllSettled
  /\ filterTasksThrows(options)
  /\ fetched' = detail.slots
  /\ Catch("regex")
  /\ UNCHANGED <<prog, tableShown, lastInput, options, fieldsToDisplay, detail,
                 tasks, activeField, activeRegex, filtered, resolvedField,
                 view, prevView, typed, prVars, call>>

\* A mutation of FetchTaskDetailsPrintOnce: the browse loop is entered
\* although --no-interactive was given.
FetchTaskDetailsPrintOnce_Prompts ==
  /\ prog = "board" /\ pc = "fetchTaskDetails"
  /\ AllSettled
  /\ ~filterTasksThrows(options)
  /\ ~options.interactive
  /\ fetched' = detail.slots
  /\ tasks' = filterTasks(fetched', options)
  /\ filtered' = tasks'
  /\ view' = printTasks(filtered', fieldsToDisplay)
  /\ prevView' = view'
  /\ tableShown' = (filtered' # <<>>)
  /\ pc' = "promptColumn"
  /\ UNCHANGED <<prog, exitCode, errorReported, lastInput, complaint, options,
                 fieldsToDisplay, detail, activeField, activeRegex,
                 resolvedField, typed, prVars, call>>

\* await fetchTaskDetails resolves and --no-interactive was given: the
\* command-line filters are applied, the table is printed once, the script ends.
FetchTaskDetailsPrintOnce ==
  /\ prog = "board" /\ pc = "fetchTaskDetails"
  /\ AllSettled
  /\ ~filterTasksThrows(options)
  /\ ~options.interactive
  /\ fetched' = detail.slots
  /\ view' = printTasks(filterTasks(fetched', options), fieldsToDisplay)
  /\ prevView' = view
  /\ tableShown' = (filterTasks(fetched', options) # <<>>)
  /\ pc' = "ended"
  /\ exitCode' = NumV(0)
  /\ UNCHANGED <<prog, errorReported, lastInput, complaint, options,
                 fieldsToDisplay, detail, tasks, activeField, activeRegex,
                 filtered, resolvedField, typed, prVars, call>>

\* await fetchTaskDetails resolves and interactive is on: the command-line
\* filters are applied, the table is printed, and runInteractiveFilter is
\* entered with the filtered list: it prints the table again and opens the
\* column prompt.
FetchTaskDetailsInteractive ==
  /\ prog = "board" /\ pc = "fetchTaskDetails"
  /\ AllSettled
  /\ ~filterTasksThrows(options)
  /\ options.interactive
  /\ fetched' = detail.slots
  /\ tasks' = filterTasks(fetched', options)
  /\ activeField' = Null
  /\ activeRegex' = Null
  /\ filtered' = tasks'
  /\ view' = printTasks(filtered', fieldsToDisplay)
  /\ prevView' = view'
  /\ tableShown' = (filtered' # <<>>)
  /\ pc' = "promptColumn"
  /\ UNCHANGED <<prog, exitCode, errorReported, lastInput, complaint, options,
                 fieldsToDisplay, detail, resolvedField, typed, prVars, call>>

-----------------------------------------------------------------------------
(* board-tasks: runInteractiveFilter.  Each action is the code that runs    *)
(* from one answered prompt to the next prompt: the branch taken, then the  *)
(* top of the loop, which prints the current list.                          *)

\* fieldChoice === "__exit": break; the top-level function returns.
ChooseExit ==
  /\ prog = "board" /\ pc = "promptColumn"
  /\ lastInput' = "__exit"
  /\ pc' = "ended"
  /\ exitCode' = NumV(0)
  /\ UNCHANGED <<prog, tableShown, errorReported, complaint, typed, boardVars,
                 prVars, call>>

\* A mutation of ChooseShowAll: the filter is cleared, the list is not reset.
ChooseShowAll_KeepsList ==
  /\ prog = "board" /\ pc = "promptColumn"
  /\ lastInput' = "__none"
  /\ activeField' = Null
  /\ activeRegex' = Null
  /\ filtered' = filtered
  /\ view' = printTasks(filtered', fieldsToDisplay)
  /\ prevView' = view
  /\ tableShown' = (tableShown \/ filtered' # <<>>)
  /\ UNCHANGED <<prog, pc, exitCode, errorReported, complaint, options,
                 fieldsToDisplay, fetched, detail, tasks, resolvedField, typed, prVars,
                 call>>

\* A mutation of ChooseShowAll: the field is cleared, the regex is kept.
ChooseShowAll_ClearsFieldOnly ==
  /\ prog = "board" /\ pc = "promptColumn"
  /\ lastInput' = "__none"
  /\ activeField' = Null
  /\ activeRegex' = activeRegex
  /\ filtered' = tasks
  /\ view' = printTasks(filtered', fieldsToDisplay)
  /\ prevView' = view
  /\ tableShown' = (tableShown \/ filtered' # <<>>)
  /\ UNCHANGED <<prog, pc, exitCode, errorReported, complaint, options,
                 fieldsToDisplay, fetched, detail, tasks, resolvedField, typed, prVars,
                 call>>

\* fieldChoice === "__none": the filter is cleared.
ChooseShowAll ==
  /\ prog = "board" /\ pc = "promptColumn"
  /\ lastInput' = "__none"
  /\ activeField' = Null
  /\ activeRegex' = Null
  /\ filtered' = tasks
  /\ view' = printTasks(filtered', fieldsToDisplay)
  /\ prevView' = view
  /\ tableShown' = (tableShown \/ filtered' # <<>>)
  /\ UNCHANGED <<prog, pc, exitCode, errorReported, complaint, options,
                 fieldsToDisplay, fetched, detail, tasks, resolvedField, typed, prVars, call>>

\* A mutation of ChooseInvalidColumn: the filter is cleared, the list shown
\* stays the filtered one.
ChooseInvalidColumn_KeepsList(choice) ==
  /\ prog = "board" /\ pc = "promptColumn"
  /\ choice \in SeqToSet(fieldsToDisplay)
  /\ ~Truthy(resolveFieldChoice(choice, fieldsToDisplay))
  /\ lastInput' = choice
  /\ complaint' = "Invalid column selection. Showing all results."
  /\ activeField' = Null
  /\ activeRegex' = Null
  /\ filtered' = filtered
  /\ view' = printTasks(filtered', fieldsToDisplay)
  /\ prevView' = view
  /\ tableShown' = (tableShown \/ filtered' # <<>>)
  /\ UNCHANGED <<prog, pc, exitCode, errorReported, options, fieldsToDisplay,
                 fetched, detail, tasks, resolvedField, typed, prVars, call>>

\* A mutation of ChooseInvalidColumn: the invalid selection leaves the loop.
ChooseInvalidColumn_Breaks(choice) ==
  /\ prog = "board" /\ pc = "promptColumn"
  /\ choice \in SeqToSet(fieldsToDisplay)
  /\ ~Truthy(resolveFieldChoice(choice, fieldsToDisplay))
  /\ lastInput' = choice
  /\ complaint' = "Invalid column selection. Showing all results."
  /\ pc' = "ended"
  /\ exitCode' = NumV(0)
  /\ UNCHANGED <<prog, tableShown, errorReported, typed, boardVars, prVars, call>>

\* A column whose id resolveFieldChoice maps to no column: "Invalid column
\* selection. Showing all results."
ChooseInvalidColumn(choice) ==
  /\ prog = "board" /\ pc = "promptColumn"
  /\ choice \in SeqToSet(fieldsToDisplay)
  /\ ~Truthy(resolveFieldChoice(choice, fieldsToDisplay))
  /\ lastInput' = choice
  /\ complaint' = "Invalid column selection. Showing all results."
  /\ activeField' = Null
  /\ activeRegex' = Null
  /\ filtered' = tasks
  /\ view' = printTasks(filtered', fieldsToDisplay)
  /\ prevView' = view
  /\ tableShown' = (tableShown \/ filtered' # <<>>)
  /\ UNCHANGED <<prog, pc, exitCode, errorReported, options, fieldsToDisplay,
                 fetched, detail, tasks, resolvedField, typed, prVars, call>>

\* A column that resolves: the regex prompt is opened for it.
ChooseColumn(choice) ==
  /\ prog = "board" /\ pc = "promptColumn"
  /\ choice \in SeqToSet(fieldsToDisplay)
  /\ Truthy(resolveFieldChoice(choice, fieldsToDisplay))
  /\ lastInput' = choice
  /\ resolvedField' = resolveFieldChoice(choice, fieldsToDisplay)
  /\ pc' = "promptRegex"
  /\ UNCHANGED <<prog, exitCode, tableShown, errorReported, complaint, options,
                 fieldsToDisplay, fetched, detail, tasks, activeField, activeRegex,
                 filtered, view, prevView, typed, prVars, call>>

\* The regex prompt's validate refuses the text: the complaint is shown and
\* the same prompt stays open.
RejectRegexText(text) ==
  /\ prog = "board" /\ pc = "promptRegex"
  /\ validate(text) # "true"
  /\ lastInput' = "regexText"
  /\ typed' = text
  /\ complaint' = validate(text)
  /\ UNCHANGED <<prog, pc, exitCode, tableShown, errorReported, options,
                 fieldsToDisplay, fetched, detail, tasks, activeField, activeRegex,
                 filtered, resolvedField, view, prevView,
                 prVars, call>>

\* A mutation of AcceptRegexText: the new filter is applied to the list
\* already filtered, not to `tasks`.
AcceptRegexText_Composes(text) ==
  /\ prog = "board" /\ pc = "promptRegex"
  /\ validate(text) = "true"
  /\ lastInput' = "regexText"
  /\ typed' = text
  /\ activeField' = resolvedField
  /\ IF RegExpThrows(text)
     THEN /\ Catch("regex")
          /\ UNCHANGED <<tableShown, activeRegex, filtered, resolvedField,
                         view, prevView>>
     ELSE /\ activeRegex' = RegExp(text)
          /\ filtered' = filterByField(filtered, activeField', activeRegex')
          /\ view' = printTasks(filtered', fieldsToDisplay)
          /\ prevView' = view
          /\ tableShown' = (tableShown \/ filtered' # <<>>)
          /\ resolvedField' = Undef
          /\ pc' = "promptColumn"
          /\ UNCHANGED <<exitCode, errorReported, complaint>>
  /\ UNCHANGED <<prog, options, fieldsToDisplay, fetched, detail, tasks, prVars, call>>

\* validate accepts the text: new RegExp(regexText, "i") replaces the filter,
\* which is applied to `tasks`.  Were the text malformed all the same, the
\* SyntaxError would leave the loop and reach the top-level catch.
AcceptRegexText(text) ==
  /\ prog = "board" /\ pc = "promptRegex"
  /\ validate(text) = "true"
  /\ lastInput' = "regexText"
  /\ typed' = text
  /\ activeField' = resolvedField
  /\ IF RegExpThrows(text)
     THEN /\ Catch("regex")
          /\ UNCHANGED <<tableShown, activeRegex, filtered, resolvedField,
                         view, prevView>>
     ELSE /\ activeRegex' = RegExp(text)
          /\ filtered' = filterByField(tasks, activeField', activeRegex')
          /\ view' = printTasks(filtered', fieldsToDisplay)
          /\ prevView' = view
          /\ tableShown' = (tableShown \/ filtered' # <<>>)
          /\ resolvedField' = Undef
          /\ pc' = "promptColumn"
          /\ UNCHANGED <<exitCode, errorReported, complaint>>
  /\ UNCHANGED <<prog, options, fieldsToDisplay, fetched, detail, tasks, prVars, call>>

BoardNext ==
  \/ FetchTaskIdsFails
  \/ FetchTaskIdsEmpty
  \/ \E ids \in IdSeqs : FetchTaskIdsOk(ids)
  \/ \E i \in 1..MaxTasks : ItemSettles(i)
  \/ FetchTaskDetailsFails
  \/ FetchTaskDetailsBadOption
  \/ FetchTaskDetailsPrintOnce
  \/ FetchTaskDetailsInteractive
  \/ ChooseExit
  \/ ChooseShowAll
  \/ \E choice \in SeqToSet(fieldsToDisplay) : ChooseInvalidColumn(choice)
  \/ \E choice \in SeqToSet(fieldsToDisplay) : ChooseColumn(choice)
  \/ \E text \in PatternInputs : RejectRegexText(text)
  \/ \E text \in PatternInputs : AcceptRegexText(text)

-----------------------------------------------------------------------------
(* pr-interactive: data. *)

\* A pull request of `az repos pr list`: createdBy may be missing, reviewers
\* is a list of display names.
PullRequest(id, creator, reviewers) ==
  [pullRequestId |-> id, createdBy |-> creator, reviewers |-> reviewers]

PR1 == PullRequest(1, StrV(<<"F", "o", "x">>), <<StrV(<<"D", "a", "n">>)>>)
PR2 == PullRequest(2, StrV(<<"D", "a", "n">>), <<>>)
PR3 == PullRequest(3, Undef, <<StrV(<<"F", "o", "x">>)>>)
PullRequests == {PR1, PR2, PR3}

\* The lists fetchPRs may resolve to.
PRLists ==
  UNION {{s \in [1..n -> PullRequests] : \A i, j \in 1..n : i # j => s[i] # s[j]}
         : n \in 0..MaxPRs}

\* The texts the operator types at the index prompt.
IndexInputs == {<<"0">>, <<"1">>, <<"2">>, <<"3">>, <<"x">>, <<"1", "x">>}

IsDigit(c) == \E d \in 1..10 : DigitChars[d] = c
DigitValue(c) == (CHOOSE d \in 1..10 : DigitChars[d] = c) - 1

\* parseInt(val) for a short text: the value of its leading digits, NaN (-1)
\* when it starts with none.
parseInt(val) ==
  IF val = <<>> \/ ~IsDigit(val[1]) THEN -1
  ELSE IF Len(val) >= 2 /\ IsDigit(val[2])
       THEN 10 * DigitValue(val[1]) + DigitValue(val[2])
       ELSE DigitValue(val[1])

\* The number a text is coerced to in `index - 1`: NaN (-1) unless every
\* character is a digit.
ToNumber(val) ==
  IF val # <<>> /\ \A i \in 1..Len(val) : IsDigit(val[i])
  THEN parseInt(val) ELSE -1

\* The index prompt's validate(val) against the current list.
validateIndex(val, list) ==
  LET num == parseInt(val)
  IN  IF num = -1 \/ num < 1 \/ num > Len(list)
      THEN "Must be a valid index number" ELSE "true"

\* prs[index - 1]: Undef when the coerced index names no element.
ElementAt(list, val) ==
  IF ToNumber(val) \in 1..Len(list) THEN list[ToNumber(val)] ELSE Undef

\* pr.createdBy?.displayName, as the string regex.test coerces it to.
CreatorText(pr) == String(pr.createdBy)

\* Whether prs.filter(pr => new RegExp(pattern, "i").test(...)) throws: the
\* expression is compiled once per element, so never for an empty list.
CreatedByFilterThrows(list, pattern) == list # <<>> /\ RegExpThrows(pattern)

\* A mutation of filterCreatedBy: the filter is applied to the list of the
\* table last shown, not to the current list.
filterCreatedBy_OfShown(list, pattern) ==
  LET Keep(pr) == RegexTest(RegExp(pattern), CreatorText(pr))
  IN  SelectSeq(prView, Keep)

\* prs.filter(pr => new RegExp(pattern, "i").test(pr.createdBy?.displayName))
filterCreatedBy(list, pattern) ==
  LET Keep(pr) == RegexTest(RegExp(pattern), CreatorText(pr))
  IN  SelectSeq(list, Keep)

\* The reviewer filter compiles the expression once per reviewer.
ReviewerFilterThrows(list, pattern) ==
  /\ RegExpThrows(pattern)
  /\ \E i \in 1..Len(list) : list[i].reviewers # <<>>

\* prs.filter(pr => pr.reviewers?.some(r => new RegExp(pattern, "i").test(r.displayName)))
filterReviewer(list, pattern) ==
  LET Keep(pr) == \E i \in 1..Len(pr.reviewers) :
                    RegexTest(RegExp(pattern), String(pr.reviewers[i]))
  IN  SelectSeq(list, Keep)

-----------------------------------------------------------------------------
(* pr-interactive: the top-level async function and mainMenu.  variant "A"  *)
(* is the menu typed as text (with help), variant "B" the list menu (with   *)
(* the condensed table and the reviewer filter).  In variant B showTable    *)
(* runs `az devops configure --list` for every row (constructPrUrl), and so *)
(* rejects when az fails; showPRDetails does so in both.                    *)

PRInit ==
  /\ CommonInit("pr", "fetchPRs")
  /\ variant \in {"A", "B"}
  /\ prs = <<>>
  /\ prView = <<>>
  /\ chosen = Undef
  /\ options = NoOptions
  /\ fieldsToDisplay = <<>>
  /\ fetched = <<>>
  /\ detail = NoDetail
  /\ tasks = <<>>
  /\ activeField = Null
  /\ activeRegex = Null
  /\ filtered = <<>>
  /\ resolvedField = Undef
  /\ view = <<>>
  /\ prevView = <<>>
  /\ typed = <<>>
  /\ call = NoCall

\* Whether showTable(list) can reject: it calls az once per row in variant B.
ShowTableCallsAz(list) == variant = "B" /\ list # <<>>

\* await showTable(list), then the menu prompt; or its rejection, caught at
\* the top level.
ShowTableThenMenu(list, azOk) ==
  IF ShowTableCallsAz(list) /\ ~azOk
  THEN /\ Catch("url")
       /\ UNCHANGED <<prView, tableShown>>
  ELSE /\ prView' = list
       /\ tableShown' = TRUE
       /\ pc' = "menu"
       /\ UNCHANGED <<exitCode, errorReported, complaint>>

\* await fetchPRs() at start rejects.
FetchPRsFails ==
  /\ prog = "pr" /\ pc = "fetchPRs"
  /\ Catch("fetch")
  /\ UNCHANGED <<prog, tableShown, lastInput, typed, boardVars, prVars, call>>

\* await fetchPRs() at start resolves: the table is shown and mainMenu
\* prompts.
FetchPRsOk(list, azOk) ==
  /\ prog = "pr" /\ pc = "fetchPRs"
  /\ prs' = list
  /\ ShowTableThenMenu(list, azOk)
  /\ UNCHANGED <<prog, lastInput, typed, boardVars, variant, chosen, call>>

\* "o", "options", "h", "help", "?": printMenu, and the prompt again.
MenuHelp ==
  /\ prog = "pr" /\ pc = "menu" /\ variant = "A"
  /\ lastInput' = "h"
  /\ UNCHANGED <<prog, pc, exitCode, tableShown, errorReported, complaint,
                 typed, boardVars, prVars, call>>

\* Any other text: "Invalid option. Type 'h' for help."
MenuInvalidOption ==
  /\ prog = "pr" /\ pc = "menu" /\ variant = "A"
  /\ lastInput' = "invalid"
  /\ complaint' = "Invalid option. Type 'h' for help."
  /\ UNCHANGED <<prog, pc, exitCode, tableShown, errorReported, typed, boardVars,
                 prVars, call>>

\* "1) View PR Details": the index prompt is opened.
MenuViewDetails ==
  /\ prog = "pr" /\ pc = "menu"
  /\ lastInput' = "details"
  /\ pc' = "promptIndex"
  /\ UNCHANGED <<prog, exitCode, tableShown, errorReported, complaint,
                 typed, boardVars, prVars, call>>

\* The index prompt's validate refuses the text: the same prompt stays open.
RejectIndex(val) ==
  /\ prog = "pr" /\ pc = "promptIndex"
  /\ validateIndex(val, prs) # "true"
  /\ lastInput' = "index"
  /\ complaint' = validateIndex(val, prs)
  /\ UNCHANGED <<prog, pc, exitCode, tableShown, errorReported, typed, boardVars,
                 prVars, call>>

\* validate accepts the text: showPRDetails(prs[index - 1]) prints the
\* details and the url (an az call), then asks whether to open the browser.
\* An index that names no element, or az failing, throws.
AcceptIndex(val, azOk) ==
  /\ prog = "pr" /\ pc = "promptIndex"
  /\ validateIndex(val, prs) = "true"
  /\ lastInput' = "index"
  /\ IF ElementAt(prs, val) = Undef
     THEN Catch("type") /\ UNCHANGED chosen
     ELSE IF ~azOk
     THEN Catch("url") /\ UNCHANGED chosen
     ELSE /\ chosen' = ElementAt(prs, val)
          /\ pc' = "confirmOpen"
          /\ UNCHANGED <<exitCode, errorReported, complaint>>
  /\ UNCHANGED <<prog, tableShown, typed, boardVars, variant, prs, prView, call>>

\* The answer to "Open this PR in your browser?": yes builds the url again
\* (an az call); then the menu prompts.
ConfirmOpen(open, azOk) ==
  /\ prog = "pr" /\ pc = "confirmOpen"
  /\ lastInput' = "confirm"
  /\ IF open /\ ~azOk
     THEN Catch("url")
     ELSE /\ pc' = "menu"
          /\ UNCHANGED <<exitCode, errorReported, complaint>>
  /\ UNCHANGED <<prog, tableShown, typed, boardVars, prVars, call>>

\* "Show Less Fields": showTable(prs, true).
MenuShowLess(azOk) ==
  /\ prog = "pr" /\ pc = "menu" /\ variant = "B"
  /\ lastInput' = "less"
  /\ ShowTableThenMenu(prs, azOk)
  /\ UNCHANGED <<prog, typed, boardVars, variant, prs, chosen, call>>

\* "Filter by Created By": the pattern prompt is opened.
MenuFilterCreatedBy ==
  /\ prog = "pr" /\ pc = "menu"
  /\ lastInput' = "createdBy"
  /\ pc' = "promptCreatedBy"
  /\ UNCHANGED <<prog, exitCode, tableShown, errorReported, complaint,
                 typed, boardVars, prVars, call>>

\* The pattern for Created By: the list is filtered in place; variant A shows
\* the table, variant B does not.  A malformed pattern throws when the list
\* has an element.
EnterCreatedByPattern(pattern) ==
  /\ prog = "pr" /\ pc = "promptCreatedBy"
  /\ lastInput' = "pattern"
  /\ typed' = pattern
  /\ IF CreatedByFilterThrows(prs, pattern)
     THEN /\ Catch("regex")
          /\ UNCHANGED <<prs, prView, tableShown>>
     ELSE /\ prs' = filterCreatedBy(prs, pattern)
          /\ IF variant = "A"
             THEN ShowTableThenMenu(prs', TRUE)
             ELSE /\ pc' = "menu"
                  /\ UNCHANGED <<prView, tableShown, exitCode, errorReported,
                                 complaint>>
  /\ UNCHANGED <<prog, boardVars, variant, chosen, call>>

\* "Filter by Reviewer": the pattern prompt is opened.
MenuFilterReviewer ==
  /\ prog = "pr" /\ pc = "menu" /\ variant = "B"
  /\ lastInput' = "reviewer"
  /\ pc' = "promptReviewer"
  /\ UNCHANGED <<prog, exitCode, tableShown, errorReported, complaint,
                 typed, boardVars, prVars, call>>

\* The pattern for Reviewer: the list is filtered in place and shown.
EnterReviewerPattern(pattern, azOk) ==
  /\ prog = "pr" /\ pc = "promptReviewer"
  /\ lastInput' = "pattern"
  /\ typed' = pattern
  /\ IF ReviewerFilterThrows(prs, pattern)
     THEN /\ Catch("regex")
          /\ UNCHANGED <<prs, prView, tableShown>>
     ELSE /\ prs' = filterReviewer(prs, pattern)
          /\ ShowTableThenMenu(prs', azOk)
  /\ UNCHANGED <<prog, boardVars, variant, chosen, call>>

\* "Refresh PR List": await fetchPRs() rejects; nothing in mainMenu catches.
MenuRefreshFails ==
  /\ prog = "pr" /\ pc = "menu"
  /\ lastInput' = "refresh"
  /\ Catch("fetch")
  /\ UNCHANGED <<prog, tableShown, typed, boardVars, prVars, call>>

\* "Refresh PR List": await fetchPRs() resolves; the new list is shown.
MenuRefreshOk(list, azOk) ==
  /\ prog = "pr" /\ pc = "menu"
  /\ lastInput' = "refresh"
  /\ prs' = list
  /\ ShowTableThenMenu(list, azOk)
  /\ UNCHANGED <<prog, typed, boardVars, variant, chosen, call>>

\* "q": "Goodbye!" and process.exit(0).
MenuQuit ==
  /\ prog = "pr" /\ pc = "menu"
  /\ lastInput' = "q"
  /\ pc' = "ended"
  /\ exitCode' = NumV(0)
  /\ UNCHANGED <<prog, tableShown, errorReported, complaint, typed, boardVars,
                 prVars, call>>

PRNext ==
  \/ FetchPRsFails
  \/ \E list \in PRLists, azOk \in BOOLEAN : FetchPRsOk(list, azOk)
  \/ MenuHelp
  \/ MenuInvalidOption
  \/ MenuViewDetails
  \/ \E val \in IndexInputs : RejectIndex(val)
  \/ \E val \in IndexInputs, azOk \in BOOLEAN : AcceptIndex(val, azOk)
  \/ \E open \in BOOLEAN, azOk \in BOOLEAN : ConfirmOpen(open, azOk)
  \/ \E azOk \in BOOLEAN : MenuShowLess(azOk)
  \/ MenuFilterCreatedBy
  \/ \E pattern \in PatternInputs : EnterCreatedByPattern(pattern)
  \/ MenuFilterReviewer
  \/ \E pattern \in PatternInputs, azOk \in BOOLEAN :
       EnterReviewerPattern(pattern, azOk)
  \/ MenuRefreshFails
  \/ \E list \in PRLists, azOk \in BOOLEAN : MenuRefreshOk(list, azOk)
  \/ MenuQuit

-----------------------------------------------------------------------------
(* Specifications. *)

\* One run of either script.
Init == BoardInit \/ PRInit
Next == BoardNext \/ PRNext
Spec == Init /\ [][Next]_vars

-----------------------------------------------------------------------------
(* The filter engine on its own: one call of filterByField on arguments     *)
(* drawn from bounded sets.                                                 *)

FilterFields == {Null, FieldV(""), FieldV(SystemTitle), FieldV(SystemState),
                 FieldV("5")}
FilterRegexes == {Null} \cup {RegExp(t) : t \in {u \in PatternInputs : ~RegExpThrows(u)}}

FilterInit ==
  /\ prog = "fn"
  /\ pc = "call"
  /\ exitCode = Undef
  /\ tableShown = FALSE
  /\ errorReported = 0
  /\ lastInput = "none"
  /\ complaint = "none"
  /\ options = NoOptions
  /\ fieldsToDisplay = <<>>
  /\ fetched = <<>>
  /\ detail = NoDetail
  /\ tasks = <<>>
  /\ activeField = Null
  /\ activeRegex = Null
  /\ filtered = <<>>
  /\ resolvedField = Undef
  /\ view = <<>>
  /\ prevView = <<>>
  /\ typed = <<>>
  /\ variant = "none" /\ prs = <<>> /\ prView = <<>> /\ chosen = Undef
  /\ \E f \in FilterFields, r \in FilterRegexes, ts \in TaskSeqs \cup {<<>>} :
       call = [field |-> f, regex |-> r, input |-> ts, output |-> <<>>,
               applied |-> FALSE, second |-> <<>>, reapplied |-> FALSE,
               byOption |-> <<>>, optionApplied |-> FALSE]

\* filterByField(call.input, call.field, call.regex) is called and returns.
ApplyFilter ==
  /\ prog = "fn" /\ pc = "call"
  /\ call' = [call EXCEPT
                !.output = filterByField(call.input, call.field, call.regex),
                !.applied = TRUE]
  /\ pc' = "returned"
  /\ UNCHANGED <<prog, exitCode, tableShown, errorReported, lastInput,
                 complaint, typed, boardVars, prVars>>

\* filterByField is called again on its own result, with the same field and
\* the same regex (the operator chooses the same column and types the same
\* text over a list that is already filtered).
ReapplyFilter ==
  /\ prog = "fn" /\ pc = "returned"
  /\ call' = [call EXCEPT
                !.second = filterByField(call.output, call.field, call.regex),
                !.reapplied = TRUE]
  /\ pc' = "returnedAgain"
  /\ UNCHANGED <<prog, exitCode, tableShown, errorReported, lastInput,
                 complaint, typed, boardVars, prVars>>

\* filterTasks is called on the same records with the same field and
\* pattern text given as --filter-field and --filter-value.
ApplyFilterTasks ==
  /\ prog = "fn" /\ pc = "returnedAgain"
  /\ call' = [call EXCEPT
       !.byOption = filterTasks(call.input,
                      [NoOptions EXCEPT
                         !.filterField = call.field,
                         !.filterValue = IF call.regex = Null THEN Null
                                         ELSE StrV(call.regex.source)]),
       !.optionApplied = TRUE]
  /\ pc' = "filteredByOption"
  /\ UNCHANGED <<prog, exitCode, tableShown, errorReported, lastInput,
                 complaint, typed, boardVars, prVars>>

FilterNext == ApplyFilter \/ ReapplyFilter \/ ApplyFilterTasks

SpecFilter == FilterInit /\ [][FilterNext]_vars

-----------------------------------------------------------------------------
(* The state of a harness that runs functions of the scripts on their own:  *)
(* no script is running, and `call` holds the arguments and the results.    *)

HarnessIdle(p, start) ==
  /\ CommonInit(p, start)
  /\ options = NoOptions
  /\ fieldsToDisplay = <<>>
  /\ fetched = <<>>
  /\ detail = NoDetail
  /\ tasks = <<>>
  /\ activeField = Null
  /\ activeRegex = Null
  /\ filtered = <<>>
  /\ resolvedField = Undef
  /\ view = <<>>
  /\ prevView = <<>>
  /\ typed = <<>>
  /\ variant = "none" /\ prs = <<>> /\ prView = <<>> /\ chosen = Undef

harnessVars == <<prog, exitCode, tableShown, errorReported, lastInput,
                 complaint, typed, boardVars, prVars>>

-----------------------------------------------------------------------------
(* One field of one work item, from az's JSON to the table cell and the     *)
(* filter: normalized when fetched, formatted when printed, matched when    *)
(* the operator filters on that column.                                     *)

\* The raw values az may print for a field; Undef stands for a field the
\* item's `fields` object does not have.
PersonObjects ==
  {ObjV(d, u, m) : d \in {Undef, StrV(<<>>), StrV(<<"D", "a", "n">>)},
                   u \in {Undef, StrV(<<"d", "@", "x">>)},
                   m \in {Undef, Null, StrV(<<"m", "@", "x">>)}}
RawFields ==
  ({SystemTitle} \X {StrV(<<"F", "i", "x">>), Null, Undef, ArrV(<<<<"a">>, <<"b">>>>)})
  \cup ({SystemAssignedTo}
          \X (PersonObjects \cup {StrV(<<"D", "a", "n">>), Null, NumV(5)}))
  \cup ({SystemIterationPath}
          \X {StrV(<<"A", "\\", "B">>), StrV(<<"A", "\\", " ", "B", " ">>),
              StrV(<<"A">>), StrV(<<"A", "\\">>), StrV(<<"\\">>), Null})
  \cup ({SystemTags}
          \X {StrV(<<"a", ";", " ", "b">>), StrV(<<"a", ";", "b">>),
              StrV(<<" ", "a", " ", ";", "b", " ">>), StrV(<<"a">>), Null})

\* The patterns the operator filters the column with.
CellPatterns == {<<>>, <<"a">>, <<"-">>, <<",", " ">>}

FieldInit ==
  /\ HarnessIdle("field", "raw")
  /\ \E fr \in RawFields, text \in CellPatterns :
       call = [field |-> fr[1], raw |-> fr[2], regex |-> RegExp(text),
               item |-> Undef, cell |-> <<>>, passes |-> FALSE]

\* fetchTaskDetails's per-item callback: every entry of item.fields is
\* normalized, and System.Id is taken from item.id.
NormalizeItem ==
  /\ prog = "field" /\ pc = "raw"
  /\ call' = [call EXCEPT !.item =
       [id |-> 1,
        fields |-> IF call.raw = Undef THEN (SystemId :> NumV(1))
                   ELSE (SystemId :> NumV(1)
                         @@ call.field :> normalizeFieldValue(call.field, call.raw))]]
  /\ pc' = "stored"
  /\ UNCHANGED harnessVars

\* printTasks: the cell of the field's column in the item's row.
PrintCell ==
  /\ prog = "field" /\ pc = "stored"
  /\ call' = [call EXCEPT !.cell =
       printTasks(<<call.item>>, <<SystemId, call.field>>)[1].cells[2]]
  /\ pc' = "shown"
  /\ UNCHANGED harnessVars

\* filterByField on the field's column with the operator's pattern.
FilterRecord ==
  /\ prog = "field" /\ pc = "shown"
  /\ call' = [call EXCEPT !.passes =
       filterByField(<<call.item>>, FieldV(call.field), call.regex) # <<>>]
  /\ pc' = "tested"
  /\ UNCHANGED harnessVars

FieldNext == NormalizeItem \/ PrintCell \/ FilterRecord

SpecField == FieldInit /\ [][FieldNext]_vars

-----------------------------------------------------------------------------
(* The table layout of printTasks for a display list: the column widths,    *)
(* the header row and the row of one record, then a filter on one of the    *)
(* displayed columns.                                                       *)

KnownFields == <<SystemId, SystemTitle, SystemState, SystemAssignedTo,
                 SystemIterationPath, SystemWorkItemType, SystemTags>>
\* Field ids the operator may pass with --fields that the scripts have no
\* label, colour or weight for.
CustomFields == <<"Custom.A", "Custom.B", "Custom.C", "Custom.D", "Custom.E",
                  "Custom.F", "Custom.G">>

\* A mutation of fieldLabel: no fallback to the id (the lookup's undefined
\* is printed).
fieldLabel_NoFallback(field) ==
  CASE field = SystemId -> "ID"
    [] field = SystemTitle -> "Title"
    [] field = SystemState -> "State"
    [] field = SystemAssignedTo -> "Assigned To"
    [] field = SystemIterationPath -> "Iteration"
    [] field = SystemWorkItemType -> "Type"
    [] field = SystemTags -> "Tags"
    [] OTHER -> "undefined"

\* fieldLabel(field): the label of a known field, else the id itself.
fieldLabel(field) ==
  CASE field = SystemId -> "ID"
    [] field = SystemTitle -> "Title"
    [] field = SystemState -> "State"
    [] field = SystemAssignedTo -> "Assigned To"
    [] field = SystemIterationPath -> "Iteration"
    [] field = SystemWorkItemType -> "Type"
    [] field = SystemTags -> "Tags"
    [] OTHER -> field

\* formatHeader's colour table: the chalk style of each field that has one.
HeaderColors ==
  (SystemId :> "blue") @@ (SystemTitle :> "green") @@ (SystemState :> "yellow")
  @@ (SystemAssignedTo :> "cyan") @@ (SystemIterationPath :> "magenta")
  @@ (SystemWorkItemType :> "white") @@ (SystemTags :> "gray")

\* formatHeader(field): the label, in the field's style or else in the
\* fallback style chalk.white.
formatHeader(field) ==
  [text |-> fieldLabel(field),
   color |-> IF field \in DOMAIN HeaderColors THEN HeaderColors[field]
             ELSE "white"]

\* computeColWidths's weights, in hundredths: weights[f] || defaultWeight.
Weight(f) ==
  CASE f = SystemId -> 8
    [] f = SystemTitle -> 30
    [] f = SystemState -> 10
    [] f = SystemAssignedTo -> 20
    [] f = SystemIterationPath -> 12
    [] f = SystemWorkItemType -> 10
    [] f = SystemTags -> 10
    [] OTHER -> 14

Max(a, b) == IF a >= b THEN a ELSE b

RECURSIVE Sum(_)
Sum(seq) == IF seq = <<>> THEN 0 ELSE seq[1] + Sum(Tail(seq))

\* Math.max(process.stdout.columns || 120, 80); columns is 0 when the output
\* is not a terminal (undefined).
totalWidth(columns) == Max(IF columns = 0 THEN 120 ELSE columns, 80)

\* fields.length * 3 + 1
padding(fields) == Len(fields) * 3 + 1

\* Math.max(totalWidth - padding, 40)
usable(fields, columns) == Max(totalWidth(columns) - padding(fields), 40)

\* The columns whose share weight / weightSum * usable is a whole number:
\* the floating-point product may fall just below it, and Math.floor then
\* gives one less.
ExactShares(fields, columns) ==
  LET weightSum == Sum([i \in 1..Len(fields) |-> Weight(fields[i])])
  IN  {i \in 1..Len(fields) :
         (Weight(fields[i]) * usable(fields, columns)) % weightSum = 0}

\* The while loop of computeColWidths: one unit at a time to the first of
\* the widest columns.
RECURSIVE Distribute(_, _)
Distribute(cols, leftover) ==
  IF leftover <= 0 \/ cols = <<>> THEN cols
  ELSE LET widest == CHOOSE i \in 1..Len(cols) :
                       /\ \A j \in 1..Len(cols) : cols[j] <= cols[i]
                       /\ \A j \in 1..(i - 1) : cols[j] < cols[i]
       IN  Distribute([cols EXCEPT ![widest] = @ + 1], leftover - 1)

\* A mutation of computeColWidths: the shares are not clamped to 6.
computeColWidths_NoFloor(fields, columns, low) ==
  LET weightSum == Sum([i \in 1..Len(fields) |-> Weight(fields[i])])
      share(i) == (Weight(fields[i]) * usable(fields, columns)) \div weightSum
      cols == [i \in 1..Len(fields) |->
                 IF i \in low THEN share(i) - 1 ELSE share(i)]
  IN  Distribute(cols, usable(fields, columns) - Sum(cols))

\* computeColWidths's `cols` before the leftover is distributed: each
\* field's share of the usable width, floored and clamped to 6; low is the
\* set of columns whose whole-number share is floored to one less.
clampedShares(fields, columns, low) ==
  LET weightSum == Sum([i \in 1..Len(fields) |-> Weight(fields[i])])
      share(i) == (Weight(fields[i]) * usable(fields, columns)) \div weightSum
  IN  [i \in 1..Len(fields) |->
         Max(6, IF i \in low THEN share(i) - 1 ELSE share(i))]

\* A mutation of computeColWidths: the leftover goes to the last column.
computeColWidths_LeftoverToLast(fields, columns, low) ==
  LET cols == clampedShares(fields, columns, low)
      leftover == usable(fields, columns) - Sum(cols)
  IN  IF leftover > 0 THEN [cols EXCEPT ![Len(cols)] = @ + leftover] ELSE cols

\* computeColWidths(fields) on a terminal of the given width.
computeColWidths(fields, columns, low) ==
  LET cols == clampedShares(fields, columns, low)
  IN  Distribute(cols, usable(fields, columns) - Sum(cols))

\* The display lists parseFields may return: System.Id and any of the other
\* known fields, followed by custom fields.
LayoutFieldLists ==
  LET Known(S) == SelectSeq(KnownFields, LAMBDA f : f = SystemId \/ f \in S)
      Others == SeqToSet(Tail(KnownFields))
  IN  {Known(S) \o SubSeq(CustomFields, 1, n) : S \in SUBSET Others, n \in 0..2}
      \cup {KnownFields \o SubSeq(CustomFields, 1, n) : n \in 3..Len(CustomFields)}

\* process.stdout.columns: 0 stands for undefined.
TerminalWidths == {0, 40, 80, 100, 200}

LayoutInit ==
  /\ HarnessIdle("layout", "printTasks")
  /\ \E fs \in LayoutFieldLists, w \in TerminalWidths :
       call = [fields |-> fs, columns |-> w, low |-> {}, colWidths |-> <<>>,
               head |-> <<>>,
               rows |-> <<>>, column |-> Undef, regex |-> Null, kept |-> <<>>]

\* printTasks, line 431: colWidths = computeColWidths(fieldsToDisplay).
ComputeColWidths ==
  /\ prog = "layout" /\ pc = "printTasks"
  /\ \E low \in SUBSET ExactShares(call.fields, call.columns) :
       call' = [call EXCEPT
                  !.low = low,
                  !.colWidths = computeColWidths(call.fields, call.columns, low)]
  /\ pc' = "head"
  /\ UNCHANGED harnessVars

\* printTasks, line 433: head = fieldsToDisplay.map(formatHeader).
FormatHeaders ==
  /\ prog = "layout" /\ pc = "head"
  /\ call' = [call EXCEPT !.head =
       [i \in 1..Len(call.fields) |-> formatHeader(call.fields[i])]]
  /\ pc' = "rows"
  /\ UNCHANGED harnessVars

\* printTasks, lines 438-447: the row of the one record is pushed and the
\* table is printed.
PushRows ==
  /\ prog = "layout" /\ pc = "rows"
  /\ call' = [call EXCEPT !.rows = printTasks(<<W1>>, call.fields)]
  /\ pc' = "promptColumn"
  /\ UNCHANGED harnessVars

\* The operator chooses a displayed column and types a pattern:
\* filterByField on that column.
FilterOnColumn(i, text) ==
  /\ prog = "layout" /\ pc = "promptColumn"
  /\ i \in 1..Len(call.fields)
  /\ call' = [call EXCEPT
       !.column = FieldV(call.fields[i]),
       !.regex = RegExp(text),
       !.kept = filterByField(<<W1>>, FieldV(call.fields[i]), RegExp(text))]
  /\ pc' = "filtered"
  /\ UNCHANGED harnessVars

LayoutNext ==
  \/ ComputeColWidths
  \/ FormatHeaders
  \/ PushRows
  \/ \E i \in 1..(Len(KnownFields) + Len(CustomFields)),
        text \in {<<>>, <<"f", "i", "x">>} : FilterOnColumn(i, text)

SpecLayout == LayoutInit /\ [][LayoutNext]_vars

-----------------------------------------------------------------------------
(* The text helpers of the pull-request table: wrapText and formatBranch.   *)

\* The texts of at most n characters over an alphabet.
Texts(alphabet, n) == UNION {[1..m -> alphabet] : m \in 0..n}

\* text.split(/\s+/): the pieces between runs of white space; a text that
\* starts or ends with white space gives an empty first or last piece.
RECURSIVE splitWhitespace(_)
splitWhitespace(text) ==
  IF \A i \in 1..Len(text) : text[i] # " " THEN <<text>>
  ELSE LET i == CHOOSE n \in 1..Len(text) :
                  text[n] = " " /\ \A m \in 1..(n - 1) : text[m] # " "
           j == CHOOSE n \in i..Len(text) :
                  /\ \A m \in i..n : text[m] = " "
                  /\ n = Len(text) \/ text[n + 1] # " "
       IN  <<SubSeq(text, 1, i - 1)>>
             \o splitWhitespace(SubSeq(text, j + 1, Len(text)))

\* A mutation of wrapLoop: the space before the word is not counted.
RECURSIVE wrapLoop_NoSpace(_, _, _, _)
wrapLoop_NoSpace(words, lines, current, width) ==
  IF words = <<>>
  THEN IF current # <<>> THEN Append(lines, current) ELSE lines
  ELSE LET word == Head(words)
       IN  IF Len(current) + Len(word) > width
           THEN wrapLoop_NoSpace(Tail(words),
                  IF current # <<>> THEN Append(lines, current) ELSE lines,
                  word, width)
           ELSE wrapLoop_NoSpace(Tail(words), lines,
                  IF current # <<>> THEN current \o <<" ">> \o word ELSE word,
                  width)

\* wrapText's for loop and the push after it: the lines, given the words
\* still to place, the lines pushed so far and the line being built.
RECURSIVE wrapLoop(_, _, _, _)
wrapLoop(words, lines, current, width) ==
  IF words = <<>>
  THEN IF current # <<>> THEN Append(lines, current) ELSE lines
  ELSE LET word == Head(words)
           needsSpace == IF Len(current) > 0 THEN 1 ELSE 0
       IN  IF Len(current) + needsSpace + Len(word) > width
           THEN wrapLoop(Tail(words),
                  IF current # <<>> THEN Append(lines, current) ELSE lines,
                  word, width)
           ELSE wrapLoop(Tail(words), lines,
                  IF current # <<>> THEN current \o <<" ">> \o word ELSE word,
                  width)

\* A mutation of wrapText: the space before a word is not counted.
wrapText_NoSpace(text, width) ==
  IF text = <<>> THEN <<"-">>
  ELSE join(wrapLoop_NoSpace(splitWhitespace(text), <<>>, <<>>, width), <<"\n">>)

\* wrapText(text, width): "-" for an empty text, else the lines joined with
\* line breaks.
wrapText(text, width) ==
  IF text = <<>> THEN <<"-">>
  ELSE join(wrapLoop(splitWhitespace(text), <<>>, <<>>, width), <<"\n">>)

WrapInit ==
  /\ HarnessIdle("wrapText", "call")
  /\ \E t \in Texts({"a", "b", " "}, MaxText), w \in 1..4 :
       call = [text |-> t, width |-> w, result |-> <<>>, applied |-> FALSE]

\* wrapText(call.text, call.width) is called and returns.
ApplyWrapText ==
  /\ prog = "wrapText" /\ pc = "call"
  /\ call' = [call EXCEPT !.result = wrapText(call.text, call.width),
                          !.applied = TRUE]
  /\ pc' = "returned"
  /\ UNCHANGED harnessVars

SpecWrap == WrapInit /\ [][ApplyWrapText]_vars

RefsHeads == <<"r", "e", "f", "s", "/", "h", "e", "a", "d", "s", "/">>

\* s.replace(pattern, ""): the first occurrence of the pattern is removed.
replaceFirst(s, pattern) ==
  LET At(i) == i + Len(pattern) - 1 <= Len(s)
                 /\ SubSeq(s, i, i + Len(pattern) - 1) = pattern
  IN  IF \E i \in 1..Len(s) : At(i)
      THEN LET i == CHOOSE n \in 1..Len(s) :
                      At(n) /\ \A m \in 1..(n - 1) : ~At(m)
           IN  SubSeq(s, 1, i - 1) \o SubSeq(s, i + Len(pattern), Len(s))
      ELSE s

\* A mutation of slices: a last slice shorter than width is left out.
RECURSIVE slices_FullOnly(_, _)
slices_FullOnly(branch, width) ==
  IF Len(branch) < width THEN <<>>
  ELSE <<SubSeq(branch, 1, width)>>
         \o slices_FullOnly(SubSeq(branch, width + 1, Len(branch)), width)

\* formatBranch's for loop: branch.slice(i, i + width) for i = 0, width, ...
RECURSIVE slices(_, _)
slices(branch, width) ==
  IF branch = <<>> THEN <<>>
  ELSE IF Len(branch) <= width THEN <<branch>>
  ELSE <<SubSeq(branch, 1, width)>>
         \o slices(SubSeq(branch, width + 1, Len(branch)), width)

\* A mutation of formatBranch: only the slices of full width are kept.
formatBranch_FullOnly(name, width) ==
  LET branch == replaceFirst(String(OrEmpty(name)), RefsHeads)
  IN  IF branch = <<>> THEN <<"-">>
      ELSE join(slices_FullOnly(branch, width), <<"\n">>)

\* formatBranch(name, width): name is a string, or Undef or Null.
formatBranch(name, width) ==
  LET branch == replaceFirst(String(OrEmpty(name)), RefsHeads)
  IN  IF branch = <<>> THEN <<"-">>
      ELSE join(slices(branch, width), <<"\n">>)

\* The ref names a pull request carries: refs/heads/ and a branch name, or
\* a bare name, or none.
RefNames ==
  {Undef, Null}
  \cup {StrV(b) : b \in Texts({"a", "b"}, MaxBranch)}
  \cup {StrV(RefsHeads \o b) : b \in Texts({"a", "b"}, MaxBranch)}

BranchInit ==
  /\ HarnessIdle("formatBranch", "call")
  /\ \E n \in RefNames, w \in 1..3 :
       call = [name |-> n, width |-> w, result |-> <<>>, applied |-> FALSE]

\* formatBranch(call.name, call.width) is called and returns.
ApplyFormatBranch ==
  /\ prog = "formatBranch" /\ pc = "call"
  /\ call' = [call EXCEPT !.result = formatBranch(call.name, call.width),
                          !.applied = TRUE]
  /\ pc' = "returned"
  /\ UNCHANGED harnessVars

SpecBranch == BranchInit /\ [][ApplyFormatBranch]_vars

-----------------------------------------------------------------------------
(* The query board-tasks runs: resolveWiql, then fetchTaskIds starts        *)
(* `az boards query --wiql <query>`.                                        *)

\* formatDefaultWiql(): the built-in query, for --changed-since's days.
formatDefaultWiql == StrV(<<"D", "1", "8", "0">>)

\* The values of --wiql and of --wiql-file (Undef: not given), and what
\* readFile gives for the path: Undef when the file cannot be read.
WiqlTexts == {Undef, StrV(<<>>), StrV(<<" ">>), StrV(<<"A">>), StrV(<<" ", "A", " ">>)}
WiqlPaths == {Undef, StrV(<<>>), StrV(<<"f">>), StrV(<<"g">>)}
FileContents == {Undef, StrV(<<>>), StrV(<<" ">>), StrV(<<"B">>), StrV(<<"B", " ">>)}

\* resolveWiql(): the query text, or the error it throws.
resolveWiql(wiql, wiqlFile, content) ==
  IF Truthy(wiql) /\ Truthy(wiqlFile)
  THEN [k |-> "throws",
        message |-> "Specify only one of --wiql or --wiql-file."]
  ELSE IF Truthy(wiqlFile)
  THEN IF content = Undef THEN [k |-> "throws", message |-> "ENOENT"]
       ELSE IF trim(content.s) = <<>>
       THEN [k |-> "throws", message |-> "WIQL file is empty."]
       ELSE StrV(trim(content.s))
  ELSE IF Truthy(wiql)
  THEN IF trim(wiql.s) = <<>>
       THEN [k |-> "throws", message |-> "Custom WIQL query is empty."]
       ELSE StrV(trim(wiql.s))
  ELSE formatDefaultWiql

WiqlInit ==
  /\ HarnessIdle("wiql", "resolveWiql")
  /\ \E w \in WiqlTexts, f \in WiqlPaths, c \in FileContents :
       call = [wiql |-> w, wiqlFile |-> f, content |-> c, query |-> Undef,
               executed |-> Undef]

\* await resolveWiql() rejects: the top-level catch prints the message.
ResolveWiqlThrows ==
  /\ prog = "wiql" /\ pc = "resolveWiql"
  /\ resolveWiql(call.wiql, call.wiqlFile, call.content).k = "throws"
  /\ Catch(resolveWiql(call.wiql, call.wiqlFile, call.content).message)
  /\ UNCHANGED <<prog, tableShown, lastInput, typed, boardVars, prVars, call>>

\* await resolveWiql() resolves to the query.
ResolveWiqlOk ==
  /\ prog = "wiql" /\ pc = "resolveWiql"
  /\ resolveWiql(call.wiql, call.wiqlFile, call.content).k # "throws"
  /\ call' = [call EXCEPT
                !.query = resolveWiql(call.wiql, call.wiqlFile, call.content)]
  /\ pc' = "fetchTaskIds"
  /\ UNCHANGED harnessVars

\* fetchTaskIds(wiql) starts az with the query.
RunQuery ==
  /\ prog = "wiql" /\ pc = "fetchTaskIds"
  /\ call' = [call EXCEPT !.executed = call.query]
  /\ pc' = "azRunning"
  /\ UNCHANGED harnessVars

WiqlNext == ResolveWiqlThrows \/ ResolveWiqlOk \/ RunQuery

SpecWiql == WiqlInit /\ [][WiqlNext]_vars

-----------------------------------------------------------------------------
(* fetchPRs(status) on its own: the status check, then `az repos pr list`.  *)

Active == <<"a", "c", "t", "i", "v", "e">>
Completed == <<"c", "o", "m", "p", "l", "e", "t", "e", "d">>
Abandoned == <<"a", "b", "a", "n", "d", "o", "n", "e", "d">>

\* The arguments fetchPRs may be called with: none (Undef), null, or a text.
StatusArgs ==
  {Undef, Null, StrV(Active), StrV(Completed), StrV(Abandoned), StrV(<<>>),
   StrV(<<"a", "l", "l">>), StrV(<<"A", "c", "t", "i", "v", "e">>),
   StrV(Active \o <<" ", "-", "-", "t", "o", "p", " ", "9">>)}

\* The parameter default: status = "active" when the argument is undefined.
statusParam(arg) == IF arg = Undef THEN StrV(Active) ELSE arg

\* A mutation of allowedIncludes: every status is let through.
allowedIncludes_Any(status) == TRUE

\* allowed.includes(status)
allowedIncludes(status) ==
  status \in {StrV(Active), StrV(Completed), StrV(Abandoned)}

StatusInit ==
  /\ HarnessIdle("fetchPRs", "call")
  /\ \E a \in StatusArgs, m \in {"pr-service.js", "pr-interactive.js"} :
       call = [module |-> m, arg |-> a, spawned |-> Undef, outcome |-> "pending",
               value |-> <<>>]

\* The status is not one of the allowed: fetchPRs throws (its promise
\* rejects) and no subprocess is started.
FetchPRsThrows ==
  /\ prog = "fetchPRs" /\ pc = "call"
  /\ ~allowedIncludes(statusParam(call.arg))
  /\ call' = [call EXCEPT !.outcome = "rejected: Invalid status"]
  /\ pc' = "settled"
  /\ UNCHANGED harnessVars

\* The status is allowed: az repos pr list --status <status> --output json
\* is started.
FetchPRsSpawns ==
  /\ prog = "fetchPRs" /\ pc = "call"
  /\ allowedIncludes(statusParam(call.arg))
  /\ call' = [call EXCEPT !.spawned =
       [command |-> "az",
        args |-> <<"repos", "pr", "list", "--status", statusParam(call.arg),
                   "--output", "json">>]]
  /\ pc' = "azRunning"
  /\ UNCHANGED harnessVars

\* az cannot be started, exits non-zero, or prints what JSON.parse rejects.
FetchPRsAzFails ==
  /\ prog = "fetchPRs" /\ pc = "azRunning"
  /\ call' = [call EXCEPT !.outcome = "rejected: az"]
  /\ pc' = "settled"
  /\ UNCHANGED harnessVars

\* az prints the list: fetchPRs resolves to it.
FetchPRsResolves(list) ==
  /\ prog = "fetchPRs" /\ pc = "azRunning"
  /\ call' = [call EXCEPT !.outcome = "resolved", !.value = list]
  /\ pc' = "settled"
  /\ UNCHANGED harnessVars

StatusNext ==
  \/ FetchPRsThrows
  \/ FetchPRsSpawns
  \/ FetchPRsAzFails
  \/ \E list \in PRLists : FetchPRsResolves(list)

SpecStatus == StatusInit /\ [][StatusNext]_vars

-----------------------------------------------------------------------------
(* az-tui: the top-level menu that launches pr-interactive.js and           *)
(* board-tasks.js as child processes.  call.menu is "input" for the menu    *)
(* typed as text (az-tui.js) and "list" for the list menu.                  *)

MaxLaunches == 2

\* The answers typed at "Enter choice (1/2/q):".
TypedChoices ==
  {<<"1">>, <<" ", "B", " ">>, <<"2">>, <<"q">>, <<"x">>,
   <<"p", "r", "s">>, <<"e", "x", "i", "t">>, <<"3">>, <<" ">>, <<>>}

\* The values of the list menu's choices.
ListChoices == {<<"p", "r", "s">>, <<"b", "o", "a", "r", "d">>, <<"e", "x", "i", "t">>}

\* Whether the answer ends the menu.
isQuit(menu, choice) ==
  IF menu = "input"
  THEN LowerStr(trim(choice)) \in {<<"q">>, <<"q", "u", "i", "t">>, <<"e", "x", "i", "t">>}
  ELSE choice = <<"e", "x", "i", "t">>

\* target: the script family the answer names, "null" for none.
target(menu, choice) ==
  IF menu = "input"
  THEN LET normalized == LowerStr(trim(choice))
       IN  IF normalized \in {<<"1">>, <<"p">>, <<"p", "r">>, <<"p", "r", "s">>} THEN "prs"
           ELSE IF normalized \in {<<"2">>, <<"b">>, <<"b", "o", "a", "r", "d">>, <<"b", "o", "a", "r", "d", "s">>}
           THEN "board" ELSE "null"
  ELSE IF choice = <<"p", "r", "s">> THEN "prs"
  ELSE IF choice = <<"b", "o", "a", "r", "d">> THEN "board" ELSE "null"

\* The script and arguments runScript is called with for a target.
scriptOf(t) ==
  IF t = "prs"
  THEN [scriptName |-> "pr-interactive.js", args |-> <<>>]
  ELSE [scriptName |-> "board-tasks.js",
        args |-> <<"--wiql-file", "query.wiql", "--interactive">>]

\* The exit codes a child's close event may carry: Null after a signal.
CloseCodes == {NumV(0), NumV(1), Null}

\* A mutation of closeSettles: every close resolves.
closeSettles_AlwaysResolves(code) == "resolved"

\* The close handler of runScript: rejects unless code is 0.
closeSettles(code) == IF code # NumV(0) THEN "rejected" ELSE "resolved"

TuiInit ==
  /\ HarnessIdle("az-tui", "prompt")
  /\ \E m \in {"input", "list"} :
       call = [menu |-> m, choice |-> Undef, children |-> <<>>, reported |-> 0,
               said |-> "none"]

\* The answers the prompt of this menu can return.
Choices == IF call.menu = "input" THEN TypedChoices ELSE ListChoices

\* "q", "quit", "exit" (or the list's Exit): "Goodbye!", mainMenu returns and
\* the process ends.
TuiQuit(choice) ==
  /\ prog = "az-tui" /\ pc = "prompt"
  /\ choice \in Choices /\ isQuit(call.menu, choice)
  /\ call' = [call EXCEPT !.choice = choice, !.said = "Goodbye!"]
  /\ pc' = "ended"
  /\ exitCode' = NumV(0)
  /\ UNCHANGED <<prog, tableShown, errorReported, lastInput, complaint, typed,
                 boardVars, prVars>>

\* An answer that names no target: "Invalid choice. Please enter 1, 2, or
\* q." and the prompt again.
TuiInvalidChoice(choice) ==
  /\ prog = "az-tui" /\ pc = "prompt"
  /\ choice \in Choices /\ ~isQuit(call.menu, choice)
  /\ target(call.menu, choice) = "null"
  /\ call' = [call EXCEPT !.choice = choice,
                          !.said = "Invalid choice. Please enter 1, 2, or q."]
  /\ UNCHANGED <<pc, harnessVars>>

\* An answer that names a target: runScript spawns the child and mainMenu
\* awaits its promise.
TuiRunScript(choice) ==
  /\ prog = "az-tui" /\ pc = "prompt"
  /\ choice \in Choices /\ ~isQuit(call.menu, choice)
  /\ target(call.menu, choice) # "null"
  /\ Len(call.children) < MaxLaunches
  /\ call' = [call EXCEPT
       !.choice = choice,
       !.children = Append(@, [script |-> scriptOf(target(call.menu, choice)),
                               state |-> "spawned", code |-> Undef])]
  /\ pc' = "awaitChild"
  /\ UNCHANGED harnessVars

\* The child's "error" event (it could not be started): the promise
\* rejects, mainMenu's catch prints the message, and the prompt comes again.
ChildError ==
  /\ prog = "az-tui" /\ pc = "awaitChild"
  /\ call.children[Len(call.children)].state = "spawned"
  /\ call' = [call EXCEPT !.children[Len(call.children)].state = "failed",
                          !.reported = @ + 1,
                          !.said = "spawn error"]
  /\ pc' = "prompt"
  /\ UNCHANGED harnessVars

\* The child's "close" event while mainMenu awaits it: the promise resolves
\* for code 0 and rejects otherwise; a rejection is printed by mainMenu's
\* catch; the prompt comes again.
ChildClose(code) ==
  /\ prog = "az-tui" /\ pc = "awaitChild"
  /\ call.children[Len(call.children)].state = "spawned"
  /\ call' = [call EXCEPT
       !.children[Len(call.children)].state = "closed",
       !.children[Len(call.children)].code = code,
       !.reported = IF closeSettles(code) = "rejected" THEN @ + 1 ELSE @,
       !.said = IF closeSettles(code) = "rejected"
                THEN "exited with code" ELSE @]
  /\ pc' = "prompt"
  /\ UNCHANGED harnessVars

\* A "close" event that follows the "error" event of a child: its promise is
\* already rejected, so the handler's rejectPromise changes nothing.
ChildCloseAfterError(i) ==
  /\ prog = "az-tui"
  /\ i \in 1..Len(call.children)
  /\ call.children[i].state = "failed"
  /\ call' = [call EXCEPT !.children[i].state = "closed",
                          !.children[i].code = Null]
  /\ UNCHANGED <<pc, harnessVars>>

TuiNext ==
  \/ \E choice \in TypedChoices \cup ListChoices : TuiQuit(choice)
  \/ \E choice \in TypedChoices : TuiInvalidChoice(choice)
  \/ \E choice \in TypedChoices \cup ListChoices : TuiRunScript(choice)
  \/ ChildError
  \/ \E code \in CloseCodes : ChildClose(code)
  \/ \E i \in 1..MaxLaunches : ChildCloseAfterError(i)

SpecTui == TuiInit /\ [][TuiNext]_vars

-----------------------------------------------------------------------------
(* execSpawnAsync: the promise around one child process, driven by the      *)
(* child's events in the order the event loop delivers them.  call.events   *)
(* records that order.                                                      *)

MaxEvents == 3

\* The chunks (Buffers) the child's stdout may deliver: plain bytes and the
\* two bytes of one two-byte UTF-8 character, together or split.
StdoutChunks == {<<"a">>, <<"b">>, <<"C3", "A9">>, <<"C3">>, <<"A9">>}

\* The chunks the child's stderr may deliver.
StderrChunks == {<<"e">>, <<" ">>}

\* chunk.toString(): the chunk decoded as UTF-8 on its own; a byte of a
\* character that is not whole in the chunk becomes U+FFFD.
RECURSIVE toString(_)
toString(chunk) ==
  IF chunk = <<>> THEN <<>>
  ELSE IF Len(chunk) >= 2 /\ chunk[1] = "C3" /\ chunk[2] = "A9"
  THEN <<"U+00E9">> \o toString(SubSeq(chunk, 3, Len(chunk)))
  ELSE IF chunk[1] \in {"C3", "A9"}
  THEN <<"U+FFFD">> \o toString(Tail(chunk))
  ELSE <<chunk[1]>> \o toString(Tail(chunk))

Pending == [state |-> "pending", value |-> Undef]

\* A mutation of settle: a later resolve or reject replaces the outcome.
settle_Overwrites(promise, state, value) == [state |-> state, value |-> value]

\* resolve(value) / reject(value) on the promise: only a pending promise
\* takes the outcome.
settle(promise, state, value) ==
  IF promise.state = "pending" THEN [state |-> state, value |-> value]
  ELSE promise

\* What the close handler resolves with: the text in pr-service.js, the
\* pair of texts in board-tasks.
resolution(module, stdout, stderr) ==
  IF module = "pr-service.js" THEN StrV(stdout)
  ELSE [stdout |-> StrV(stdout), stderr |-> StrV(stderr)]

\* The Error the close handler rejects with.
exitError(code, stderr) ==
  [k |-> "error", message |-> "exited with code", code |-> code,
   stderr |-> trim(stderr)]

\* The error the child's "error" event carries.
SpawnError == [k |-> "error", message |-> "spawn", code |-> Undef, stderr |-> <<>>]

SpawnInit ==
  /\ HarnessIdle("execSpawnAsync", "awaiting")
  /\ \E m \in {"pr-service.js", "board-tasks.js"} :
       call = [module |-> m, stdout |-> <<>>, stderr |-> <<>>,
               promise |-> Pending, child |-> "spawned", events |-> <<>>]

\* Whether the child can still emit an event.
Emits == prog = "execSpawnAsync" /\ call.child # "closed"
           /\ Len(call.events) < MaxEvents

\* child.stdout "data": stdout += chunk.toString()
StdoutData(chunk) ==
  /\ Emits
  /\ call' = [call EXCEPT
       !.stdout = @ \o toString(chunk),
       !.events = Append(@, [type |-> "stdout", chunk |-> chunk, code |-> Undef])]
  /\ UNCHANGED <<pc, harnessVars>>

\* child.stderr "data": stderr += chunk.toString()
StderrData(chunk) ==
  /\ Emits
  /\ call' = [call EXCEPT
       !.stderr = @ \o toString(chunk),
       !.events = Append(@, [type |-> "stderr", chunk |-> chunk, code |-> Undef])]
  /\ UNCHANGED <<pc, harnessVars>>

\* child "error": reject(err).
ChildEmitsError ==
  /\ Emits
  /\ call.child = "spawned"
  /\ call' = [call EXCEPT
       !.promise = settle(@, "rejected", SpawnError),
       !.child = "errored",
       !.events = Append(@, [type |-> "error", chunk |-> <<>>, code |-> Undef])]
  /\ pc' = "settled"
  /\ UNCHANGED harnessVars

\* child "close": reject for a code other than 0, else resolve with what
\* stdout holds.  No event follows a close.
ChildEmitsClose(code) ==
  /\ Emits
  /\ call' = [call EXCEPT
       !.promise = IF code # NumV(0)
                   THEN settle(@, "rejected", exitError(code, call.stderr))
                   ELSE settle(@, "resolved",
                               resolution(call.module, call.stdout, call.stderr)),
       !.child = "closed",
       !.events = Append(@, [type |-> "close", chunk |-> <<>>, code |-> code])]
  /\ pc' = "settled"
  /\ UNCHANGED harnessVars

SpawnNext ==
  \/ \E chunk \in StdoutChunks : StdoutData(chunk)
  \/ \E chunk \in StderrChunks : StderrData(chunk)
  \/ ChildEmitsError
  \/ \E code \in CloseCodes : ChildEmitsClose(code)

SpecSpawn == SpawnInit /\ [][SpawnNext]_vars

-----------------------------------------------------------------------------
(* Claims about the browse loop of board-tasks. *)

\* The record set runInteractiveFilter is started with: the fetched records
\* that pass the command-line filters.
LoopInput == filterTasks(fetched, options)

AtBoardPrompt == prog = "board" /\ pc \in {"promptColumn", "promptRegex"}

\* C1 as stated: after "Show all (no filter)" the table shows the full
\* original record set, every fetched record present, in the fetched order.
C1_ShowAllShowsFetched ==
  (prog = "board" /\ lastInput = "__none")
    => view = printTasks(fetched, fieldsToDisplay)

\* C1 amended: after "Show all (no filter)", whatever was selected before,
\* no filter is active and the table shows the record set the loop was
\* started with (the fetched records that pass the command-line filters),
\* every one of them present, in the fetched order.
C1_ShowAllShowsLoopInput ==
  (prog = "board" /\ lastInput = "__none")
    => /\ activeField = Null /\ activeRegex = Null
       /\ filtered = LoopInput
       /\ view = printTasks(LoopInput, fieldsToDisplay)

\* "Show all" has just restored rows a filter of the loop had hidden, in a
\* run whose command-line filter keeps some fetched records out.
C1_Witness ==
  /\ prog = "board" /\ lastInput = "__none"
  /\ Len(prevView) < Len(view)
  /\ Len(view) < Len(fetched)

\* C2 as stated: after a column and a pattern are selected the table shows
\* that one filter applied to the original unfiltered (fetched) records.
C2_FilterAppliesToFetched ==
  (prog = "board" /\ pc = "promptColumn" /\ lastInput = "regexText")
    => view = printTasks(filterByField(fetched, activeField, activeRegex),
                         fieldsToDisplay)

\* C2 amended: the filters of the loop do not compose with each other: after
\* a column and a pattern are selected the table shows that one filter
\* applied to the record set the loop was started with, whatever loop filter
\* was active before; the command-line filters stay in force throughout.
C2_FilterAppliesToLoopInput ==
  (prog = "board" /\ pc = "promptColumn" /\ lastInput = "regexText")
    => /\ filtered = filterByField(LoopInput, activeField, activeRegex)
       /\ view = printTasks(filtered, fieldsToDisplay)

\* A new filter has just been applied and the table shows a row that the
\* table before it, itself filtered, did not show.
C2_Witness ==
  /\ prog = "board" /\ pc = "promptColumn" /\ lastInput = "regexText"
  /\ prevView # <<>>
  /\ \E i \in 1..Len(view) : view[i] \notin SeqToSet(prevView)

\* C3: the active filter of the loop is either no field and no pattern, or
\* a field and a pattern, at every prompt of the loop.
C3_FilterBothOrNeither ==
  AtBoardPrompt
    => \/ activeField = Null /\ activeRegex = Null
       \/ Truthy(activeField) /\ Truthy(activeRegex)

\* A filter is active while the operator is asked the pattern of another
\* column.
C3_Witness ==
  /\ prog = "board" /\ pc = "promptRegex"
  /\ Truthy(activeField) /\ Truthy(activeRegex)
  /\ resolvedField # activeField

\* C4 as stated: at every column prompt the table shown is the original
\* (fetched) record set under the active filter, or all of it without one.
C4_ViewIsFilterOfFetched ==
  (prog = "board" /\ pc = "promptColumn")
    => view = printTasks(filterByField(fetched, activeField, activeRegex),
                         fieldsToDisplay)

\* C4 amended: at every column prompt the table shown is the record set the
\* loop was started with (the fetched records that pass the command-line
\* filters) under the active filter, or all of that set without one.
C4_ViewIsFilterOfLoopInput ==
  (prog = "board" /\ pc = "promptColumn")
    => /\ tasks = LoopInput
       /\ filtered = filterByField(tasks, activeField, activeRegex)
       /\ view = printTasks(filtered, fieldsToDisplay)

\* At a column prompt a filter is active and hides some, not all, records.
C4_Witness ==
  /\ prog = "board" /\ pc = "promptColumn"
  /\ Truthy(activeField)
  /\ view # <<>> /\ Len(view) < Len(tasks)

\* C5: once a prompt of the loop has been answered, the script has ended if
\* and only if the last answer was the exit choice.
C5_EndsOnlyOnExit ==
  (prog = "board" /\ lastInput # "none")
    => ((pc = "ended") <=> (lastInput = "__exit"))

\* The loop was left by the exit choice, after a filter that left no row.
C5_Witness ==
  /\ prog = "board" /\ pc = "ended" /\ lastInput = "__exit"
  /\ Truthy(activeField) /\ view = <<>> /\ tasks # <<>>

\* C6: a malformed text typed at the regex prompt is answered with the
\* complaint and the same prompt for the same field; the filter, the list
\* and the table stay as they were, and the script goes on.
C6_InvalidPatternReprompts ==
  [][(prog = "board" /\ pc = "promptRegex" /\ lastInput' = "regexText"
        /\ RegExpThrows(typed'))
       => /\ pc' = "promptRegex"
          /\ resolvedField' = resolvedField
          /\ activeField' = activeField
          /\ activeRegex' = activeRegex
          /\ filtered' = filtered
          /\ view' = view
          /\ complaint' = validate(typed')
          /\ complaint' # "true"
          /\ errorReported' = errorReported
          /\ exitCode' = Undef]_vars

\* A malformed text has been refused while a filter was active.
C6_Witness ==
  /\ prog = "board" /\ pc = "promptRegex" /\ lastInput = "regexText"
  /\ RegExpThrows(typed)
  /\ Truthy(activeField) /\ Len(view) < Len(tasks)

-----------------------------------------------------------------------------
(* Claims about errors and exit codes. *)

\* C7 as stated: in the pull-request menu an error raised while filtering
\* (a malformed regex) is reported and the menu prompts again.
C7_MenuSurvivesRegexError ==
  (prog = "pr" /\ lastInput = "pattern" /\ RegExpThrows(typed))
    => pc = "menu"

\* C8 as stated: a script that ends has a non-zero exit code when the record
\* source failed before any table was shown, and exit code 0 otherwise.
C8_ExitCodes ==
  pc = "ended"
    => IF complaint = "fetch" /\ ~tableShown
       THEN exitCode # NumV(0)
       ELSE exitCode = NumV(0)

\* C9 as stated: when the record source fails during "Refresh PR List" the
\* failure is reported once, the menu prompts again and the list is the one
\* shown last.
C9_RefreshFailureKeepsMenu ==
  (prog = "pr" /\ lastInput = "refresh" /\ complaint = "fetch")
    => /\ pc = "menu"
       /\ errorReported = 1
       /\ prView = prs

-----------------------------------------------------------------------------
(* Claims about the filter engine. *)

\* C10: filterByField with a null or empty field, or with a null pattern,
\* returns the input record sequence unchanged.
C10_FilterIdentity ==
  (prog = "fn" /\ call.applied
     /\ (call.field = Null \/ call.field = FieldV("") \/ call.regex = Null))
    => call.output = call.input

\* The filter was called with no field and a pattern that matches the title
\* of no record of a non-empty input.
C10_Witness ==
  /\ prog = "fn" /\ call.applied
  /\ call.field = Null /\ call.regex # Null
  /\ Len(call.input) = 2
  /\ filterByField(call.input, FieldV(SystemTitle), call.regex) = <<>>

\* C11: re-applying a filter to its own output changes nothing:
\* filterByField(filterByField(ts, f, r), f, r) = filterByField(ts, f, r) for
\* every record sequence, field and compiled pattern.
C11_FilterIdempotent ==
  (prog = "fn" /\ call.reapplied) => call.second = call.output

\* A filter that keeps one record of two was applied, then applied again to
\* what it kept.
C11_Witness ==
  /\ prog = "fn" /\ call.reapplied
  /\ call.field = FieldV(SystemTitle) /\ call.regex = RegExp(<<"f", "i", "x">>)
  /\ Len(call.input) = 2 /\ Len(call.output) = 1

\* Whether the text s contains the text p, letters compared without case.
ContainsIgnoringCase(s, p) ==
  \E i \in 1..(Len(s) + 1) :
    /\ i + Len(p) - 1 <= Len(s)
    /\ \A j \in 1..Len(p) : ToLower(s[i + j - 1]) = ToLower(p[j])

\* The text of a record's stored value for a field ("" when it has none).
StoredText(t, field) == String(OrEmpty(getField(t, FieldKey(field))))

\* Whether out is in, restricted to the positions in keep, in the same order.
IsSelection(out, in, keep) ==
  \E pos \in [1..Len(out) -> 1..Len(in)] :
    /\ \A i, j \in 1..Len(out) : i < j => pos[i] < pos[j]
    /\ \A i \in 1..Len(out) : out[i] = in[pos[i]]
    /\ {pos[i] : i \in 1..Len(out)} = keep

\* C12: with a field and a pattern set, the filter output is exactly the
\* records whose stored value for the field contains the pattern text, case
\* ignored: each such record once, no other record, in the input's order;
\* and so is the output of the command-line filter on that field.
C12_FilterExact ==
  (prog = "fn" /\ call.applied /\ Truthy(call.field) /\ call.regex # Null)
    => LET matching ==
             {i \in 1..Len(call.input) :
                ContainsIgnoringCase(StoredText(call.input[i], call.field),
                                     call.regex.source)}
       IN  /\ IsSelection(call.output, call.input, matching)
           /\ call.optionApplied
                => IsSelection(call.byOption, call.input, matching)

\* The filter "fix" on the title was applied to a list whose first record
\* does not match and whose second record matches in another case.
C12_Witness ==
  /\ prog = "fn" /\ call.applied
  /\ call.field = FieldV(SystemTitle) /\ call.regex = RegExp(<<"f", "i", "x">>)
  /\ call.input = <<W2, W3>>
  /\ call.output = <<W3>>
  /\ call.optionApplied /\ call.byOption = <<W3>>

-----------------------------------------------------------------------------
(* Claims about normalizing and formatting a field. *)

\* C13 as stated: a record passes a filter on a displayed field exactly when
\* the pattern matches the text shown in that field's table cell.
C13_FilterSeesCell ==
  (prog = "field" /\ pc = "tested")
    => (call.passes <=> RegexTest(call.regex, call.cell))

\* Whether a property of an identity object is there: a non-empty string.
Present(v) == v.k = "str" /\ v.s # <<>>

\* C15: a person field given as an object is stored as its display name if
\* it has one, else its uniqueName, else its mailAddress, else "-"; what is
\* stored is a string, and the cell does not show an object dump.
C15_PersonExtraction ==
  (prog = "field" /\ pc # "raw" /\ call.field = SystemAssignedTo
     /\ call.raw.k = "obj")
    => /\ getField(call.item, SystemAssignedTo) =
            ( IF Present(call.raw.displayName) THEN call.raw.displayName
              ELSE IF Present(call.raw.uniqueName) THEN call.raw.uniqueName
              ELSE IF Present(call.raw.mailAddress) THEN call.raw.mailAddress
              ELSE StrV(<<"-">>) )
       /\ getField(call.item, SystemAssignedTo).k = "str"
       /\ pc \in {"shown", "tested"}
            => call.cell = String(getField(call.item, SystemAssignedTo))

\* A person object without a display name and with a uniqueName was
\* normalized and printed.
C15_Witness ==
  /\ prog = "field" /\ pc = "shown" /\ call.field = SystemAssignedTo
  /\ call.raw.k = "obj" /\ ~Present(call.raw.displayName)
  /\ Present(call.raw.uniqueName)
  /\ call.cell = call.raw.uniqueName.s

\* C16 as stated: the cell of a tag field given as a ";"-separated string
\* is its segments, each trimmed, joined with ", ".
C16_TagsTrimmedPerSegment ==
  (prog = "field" /\ pc \in {"shown", "tested"} /\ call.field = SystemTags
     /\ call.raw.k = "str")
    => LET segments == split(call.raw.s, ";")
       IN  call.cell =
             join([i \in 1..Len(segments) |-> trim(segments[i])], <<",", " ">>)

-----------------------------------------------------------------------------
(* Claims about the table layout. *)

Unregistered(f) == f \notin SeqToSet(KnownFields)

\* C19: a field with no registry entry gets its id as label, the default
\* weight and no colour of its own (the fallback style), and with such a
\* field in the display list the widths, the header, the row and a filter
\* on that column are all computed: one width of at least 6 and one header
\* per field, "-" in the field's cell, and the record kept exactly when the
\* pattern matches the empty text.
C19_RegistryFailsSoft ==
  prog = "layout" =>
    /\ complaint = "none" /\ errorReported = 0
    /\ \A i \in 1..Len(call.fields) :
         Unregistered(call.fields[i]) =>
           /\ Weight(call.fields[i]) = 14
           /\ call.fields[i] \notin DOMAIN HeaderColors
           /\ pc # "printTasks" =>
                Len(call.colWidths) = Len(call.fields) /\ call.colWidths[i] >= 6
           /\ pc \in {"rows", "promptColumn", "filtered"} =>
                call.head[i] = [text |-> call.fields[i], color |-> "white"]
           /\ pc \in {"promptColumn", "filtered"} =>
                call.rows[1].cells[i] = <<"-">>
           /\ (pc = "filtered" /\ call.column = FieldV(call.fields[i])) =>
                call.kept = IF call.regex.source = <<>> THEN <<W1>> ELSE <<>>

\* A list with a custom field was laid out and printed, and a filter on the
\* custom column was applied.
C19_Witness ==
  /\ prog = "layout" /\ pc = "filtered"
  /\ call.column = FieldV("Custom.A")
  /\ call.regex = RegExp(<<"f", "i", "x">>)
  /\ call.kept = <<>>

-----------------------------------------------------------------------------
(* Claims about the text helpers. *)

\* The words of a text: its maximal runs of characters that are neither a
\* space nor a line break, in order.
RECURSIVE WordsOf(_)
WordsOf(text) ==
  LET IsBlank(c) == c = " " \/ c = "\n"
  IN  IF text = <<>> THEN <<>>
      ELSE IF IsBlank(text[1]) THEN WordsOf(Tail(text))
      ELSE LET n == CHOOSE m \in 1..Len(text) :
                      /\ \A k \in 1..m : ~IsBlank(text[k])
                      /\ m = Len(text) \/ IsBlank(text[m + 1])
           IN  <<SubSeq(text, 1, n)>> \o WordsOf(SubSeq(text, n + 1, Len(text)))

\* C17: wrapText("", w) is "-"; for any other text the words of the output
\* lines, read in order, are the words of the input; every output line has
\* at most width characters or is a single word longer than width; and the
\* first word of every line after the first would not have fitted, with one
\* space, at the end of the line before it.
C17_GreedyWrap ==
  (prog = "wrapText" /\ call.applied) =>
    IF call.text = <<>> THEN call.result = <<"-">>
    ELSE LET lines == split(call.result, "\n")
         IN  /\ WordsOf(call.result) = WordsOf(call.text)
             /\ \A i \in 1..Len(lines) :
                  \/ Len(lines[i]) <= call.width
                  \/ lines[i] \in SeqToSet(WordsOf(call.text))
             /\ \A i \in 2..Len(lines) :
                  Len(lines[i - 1]) + 1 + Len(WordsOf(lines[i])[1]) > call.width

\* A text of three words was wrapped at width 3 into two lines, the first
\* holding two words.
C17_Witness ==
  /\ prog = "wrapText" /\ call.applied
  /\ call.text = <<"a", " ", "b", " ", "a">> /\ call.width = 3
  /\ call.result = <<"a", " ", "b", "\n", "a">>

\* The branch name of a ref name: the name without its refs/heads/ prefix.
Token(name) ==
  IF name.k # "str" THEN <<>>
  ELSE IF Len(name.s) >= Len(RefsHeads)
          /\ SubSeq(name.s, 1, Len(RefsHeads)) = RefsHeads
  THEN SubSeq(name.s, Len(RefsHeads) + 1, Len(name.s))
  ELSE name.s

\* The concatenation of a sequence of texts.
RECURSIVE Concat(_)
Concat(texts) == IF texts = <<>> THEN <<>> ELSE texts[1] \o Concat(Tail(texts))

\* C18: for a non-empty branch name the output of formatBranch is slices
\* separated by line breaks: every slice but the last has exactly width
\* characters, the last has between 1 and width, and the slices
\* concatenated in order are the name without its refs/heads/ prefix.
C18_FixedWidthChunks ==
  (prog = "formatBranch" /\ call.applied /\ Token(call.name) # <<>>) =>
    LET parts == split(call.result, "\n")
    IN  /\ \A i \in 1..(Len(parts) - 1) : Len(parts[i]) = call.width
        /\ Len(parts[Len(parts)]) \in 1..call.width
        /\ Concat(parts) = Token(call.name)

\* refs/heads/abab was cut at width 3 into "aba" and "b".
C18_Witness ==
  /\ prog = "formatBranch" /\ call.applied
  /\ call.name = StrV(RefsHeads \o <<"a", "b", "a", "b">>) /\ call.width = 3
  /\ call.result = <<"a", "b", "a", "\n", "b">>

-----------------------------------------------------------------------------
(* Claims about fetching the records. *)

\* C20: whatever the order in which the per-item subprocesses end, the
\* record sequence fetchTaskDetails resolves to holds the item of each
\* queried id at that id's position, and while a subprocess is still
\* running nothing has been handed on and no table has been printed.
C20_FetchesCommute ==
  prog = "board" =>
    /\ fetched # <<>> =>
         fetched = [i \in 1..Len(detail.ids) |-> ItemOf(detail.ids[i])]
    /\ Len(detail.order) < Len(detail.ids) =>
         fetched = <<>> /\ view = <<>> /\ ~tableShown

\* Two items were fetched, the subprocess of the second id ended first, and
\* the table printed lists the first id's record first.
C20_Witness ==
  /\ prog = "board" /\ pc = "promptColumn"
  /\ detail.order = <<2, 1>>
  /\ Len(view) = 2
  /\ view[1].id = detail.ids[1] /\ view[2].id = detail.ids[2]

-----------------------------------------------------------------------------
(* Claims about the command line of board-tasks. *)

\* C21 as stated: with both --wiql and --wiql-file given (and the file
\* readable and holding a query) the run goes on to execute the file's
\* query.
C21_FileOverridesWiql ==
  (prog = "wiql" /\ pc \in {"ended", "azRunning"}
     /\ Truthy(call.wiql) /\ Truthy(call.wiqlFile)
     /\ call.content # Undef /\ trim(call.content.s) # <<>>)
    => call.executed = StrV(trim(call.content.s))

\* C22: interactive filtering is on unless --no-interactive is given; a
\* prompt is open only in an interactive run, and the first one only after
\* the table of the command-line-filtered records has been printed; a
\* --no-interactive run never opens a prompt and, when it ends without an
\* error, has printed that table once and nothing before it.
C22_InteractiveAfterFirstTable ==
  prog = "board" =>
    /\ options.interactive = (options.flag # "--no-interactive")
    /\ pc \in {"promptColumn", "promptRegex"} =>
         /\ options.interactive
         /\ lastInput = "none" =>
              /\ pc = "promptColumn"
              /\ prevView = printTasks(LoopInput, fieldsToDisplay)
    /\ ~options.interactive =>
         /\ pc \notin {"promptColumn", "promptRegex"}
         /\ lastInput = "none"
         /\ (pc = "ended" /\ complaint = "none") =>
              /\ view = printTasks(LoopInput, fieldsToDisplay)
              /\ prevView = <<>>

\* A --no-interactive run has ended after printing a table of two records,
\* with no prompt answered.
C22_Witness ==
  /\ prog = "board" /\ pc = "ended"
  /\ options.flag = "--no-interactive"
  /\ Len(view) = 2 /\ lastInput = "none"

-----------------------------------------------------------------------------
(* Claims about the leftover distribution of the width allocator. *)

\* C23: computeColWidths returns (its loop ends), the whole leftover has
\* gone to the first of the widest floor-and-clamp shares and the other
\* columns keep their share, so the widths sum to the usable width when the
\* clamped shares fit in it and to the sum of the clamped shares when they
\* do not.
C23_LeftoverDistribution ==
  (prog = "layout" /\ pc # "printTasks") =>
    LET cols == clampedShares(call.fields, call.columns, call.low)
        room == usable(call.fields, call.columns)
        widest == CHOOSE i \in 1..Len(cols) :
                    /\ \A j \in 1..Len(cols) : cols[j] <= cols[i]
                    /\ \A j \in 1..(i - 1) : cols[j] < cols[i]
    IN  /\ Sum(call.colWidths) = Max(room, Sum(cols))
        /\ \A i \in 1..Len(cols) :
             call.colWidths[i] =
               IF i = widest THEN cols[i] + Max(0, room - Sum(cols))
               ELSE cols[i]

\* Widths were computed for a list whose first field is not the widest and
\* whose shares leave more than one unit over.
C23_Witness ==
  /\ prog = "layout" /\ pc # "printTasks"
  /\ call.fields = <<SystemId, SystemTitle, SystemState>>
  /\ call.columns = 100
  /\ Sum(clampedShares(call.fields, call.columns, call.low))
       < usable(call.fields, call.columns) - 1
  /\ call.colWidths[2] > clampedShares(call.fields, call.columns, call.low)[2] + 1

-----------------------------------------------------------------------------
(* Claims about the pull-request record source. *)

\* C24: a subprocess started by fetchPRs is `az repos pr list` with a
\* status that is active, completed or abandoned, and a call with any other
\* status is rejected without a subprocess having been started.
C24_StatusAllowList ==
  prog = "fetchPRs" =>
    /\ call.spawned # Undef =>
         /\ call.spawned.args[5] \in {StrV(Active), StrV(Completed), StrV(Abandoned)}
         /\ call.spawned.args[5] = IF call.arg = Undef THEN StrV(Active) ELSE call.arg
    /\ (pc # "call" /\ call.arg \notin {Undef, StrV(Active), StrV(Completed),
                                         StrV(Abandoned)}) =>
         /\ call.spawned = Undef
         /\ call.outcome = "rejected: Invalid status"

\* fetchPRs was called with a status that starts with an allowed one and
\* carries more, and was rejected.
C24_Witness ==
  /\ prog = "fetchPRs" /\ pc = "settled"
  /\ call.arg = StrV(Active \o <<" ", "-", "-", "t", "o", "p", " ", "9">>)
  /\ call.outcome = "rejected: Invalid status"
  /\ call.spawned = Undef

-----------------------------------------------------------------------------
(* Claims about the pull-request menu. *)

\* C25: in the pull-request menu every step but a refresh leaves the current
\* list as it is or removes records from it: an answer to a filter prompt
\* keeps a selection of the current list in its order, and help, an invalid
\* option, the details of a record, the condensed table and quitting change
\* nothing of it.
C25_ListOnlyShrinks ==
  [][prog = "pr" =>
       LET Kept(pr) == \E i \in 1..Len(prs') : prs'[i] = pr
       IN  /\ (pc \in {"promptCreatedBy", "promptReviewer"}) =>
                 prs' = SelectSeq(prs, Kept)
           /\ (pc \in {"promptIndex", "confirmOpen", "ended"}) => prs' = prs
           /\ (pc = "menu" /\ lastInput' # "refresh") => prs' = prs
           /\ prs' # SelectSeq(prs, Kept) =>
                 (lastInput' = "refresh" \/ pc = "fetchPRs")]_vars

\* A Created By filter in the list menu has removed one of the two records
\* of the table last shown.
C25_Witness ==
  /\ prog = "pr" /\ variant = "B" /\ pc = "menu" /\ lastInput = "pattern"
  /\ prView = <<PR1, PR2>>
  /\ prs = <<PR1>>
  /\ typed = <<"o">>

\* C26 as stated: whenever the index prompt of "View PR Details" is open
\* the validator accepts at least one index, and an accepted answer selects
\* a record of the current list and leads on to the confirmation (and from
\* it to the menu), never out of the menu.
C26_DetailsReturnToMenu ==
  prog = "pr" =>
    /\ pc = "promptIndex" =>
         /\ prs # <<>>
         /\ \E val \in IndexInputs : validateIndex(val, prs) = "true"
    /\ (lastInput = "index" /\ pc # "promptIndex" /\ complaint # "url") =>
         /\ pc = "confirmOpen"
         /\ \E i \in 1..Len(prs) : chosen = prs[i]

-----------------------------------------------------------------------------
(* Claims about the az-tui menu. *)

\* The children whose failure mainMenu's catch has to print: those that
\* could not be started and those that closed with a code other than 0.
FailedChildren ==
  {i \in 1..Len(call.children) :
     \/ call.children[i].state = "failed"
     \/ call.children[i].state = "closed" /\ call.children[i].code # NumV(0)}

\* C27: the az-tui menu has at most one child that has neither closed nor
\* failed to start, and none while it prompts; every child that failed to
\* start or closed with a non-zero code was reported once and the menu went
\* on; the menu has ended only after a quit answer; and a child is launched
\* only from the prompt, by an answer that names its script.
C27_OneChildAtATime ==
  /\ [](prog = "az-tui" =>
         LET alive == {i \in 1..Len(call.children) :
                         call.children[i].state = "spawned"}
         IN  /\ Cardinality(alive) <= 1
             /\ pc = "prompt" => alive = {}
             /\ pc = "awaitChild" => alive = {Len(call.children)}
             /\ call.reported = Cardinality(FailedChildren)
             /\ pc = "ended" =>
                  /\ isQuit(call.menu, call.choice)
                  /\ call.said = "Goodbye!"
                  /\ exitCode = NumV(0))
  /\ [][prog = "az-tui" =>
          /\ Len(call'.children) >= Len(call.children)
          /\ Len(call'.children) > Len(call.children) =>
               /\ pc = "prompt" /\ pc' = "awaitChild"
               /\ Len(call'.children) = Len(call.children) + 1
               /\ target(call.menu, call'.choice) # "null"
               /\ ~isQuit(call.menu, call'.choice)
               /\ call'.children[Len(call'.children)].script =
                    scriptOf(target(call.menu, call'.choice))
          /\ (pc = "awaitChild" /\ pc' # pc) => pc' = "prompt"]_vars

\* The menu prompts after two children: the first could not be started,
\* the second exited with code 1, and both were reported.
C27_Witness ==
  /\ prog = "az-tui" /\ pc = "prompt"
  /\ Len(call.children) = 2
  /\ call.children[1].state = "failed"
  /\ call.children[2].state = "closed" /\ call.children[2].code = NumV(1)
  /\ call.reported = 2

-----------------------------------------------------------------------------
(* Claims about execSpawnAsync. *)

\* The index of the first error or close event delivered, 0 when there is
\* none yet.
FirstSettling ==
  LET settling == {i \in 1..Len(call.events) :
                     call.events[i].type \in {"error", "close"}}
  IN  IF settling = {} THEN 0
      ELSE CHOOSE i \in settling : \A j \in settling : i <= j

\* The texts of the chunks of one stream among the first n events, in the
\* order of arrival.
RECURSIVE Arrived(_, _)
Arrived(stream, n) ==
  IF n = 0 THEN <<>>
  ELSE Arrived(stream, n - 1)
         \o (IF call.events[n].type = stream
             THEN toString(call.events[n].chunk) ELSE <<>>)

====
